---------------------------- MODULE Spec2Model ----------------------------
(***************************************************************************)
(* PostConvert: an HTTP service that turns an uploaded image, HEIC/HEIF    *)
(* container or PDF into JPEG output.  The model follows the most complete *)
(* iteration of the server (src/unnamed/part_000, second module, lines     *)
(* 54-558): the middleware chain, POST /convert, POST /convert/pdf, the    *)
(* helpers they call, the temporary files they create and the client that  *)
(* may disconnect at any time.  Each action is one run of handler code     *)
(* between two awaits (node runs that code without interleaving).          *)
(***************************************************************************)
EXTENDS Integers, Sequences, FiniteSets, TLC

(* ------------------------------ bounds -------------------------------- *)

\* Requests the server sees in one behaviour.
NumReqs == 2

\* Largest number of page files one rasterizer run leaves behind.
MaxProduced == 3

\* Largest capacity of the admission controller that is explored.
MaxCapacity == 2

Reqs == 1..NumReqs

(* --------------------------- JS values -------------------------------- *)

\* The value of a header that was not sent, and of a body that was not parsed.
undefined == [k |-> "undefined"]

\* A string is a tuple of one-character strings.
Upper == <<"A","B","C","D","E","F","G","H","I","J","K","L","M",
           "N","O","P","Q","R","S","T","U","V","W","X","Y","Z">>

Lower == <<"a","b","c","d","e","f","g","h","i","j","k","l","m",
           "n","o","p","q","r","s","t","u","v","w","x","y","z">>

toLowerCase(s) ==
  [i \in 1..Len(s) |->
     IF \E j \in 1..26 : Upper[j] = s[i]
       THEN Lower[CHOOSE j \in 1..26 : Upper[j] = s[i]]
       ELSE s[i]]

startsWith(s, p) == Len(s) >= Len(p) /\ SubSeq(s, 1, Len(p)) = p

endsWith(s, p) == Len(s) >= Len(p) /\ SubSeq(s, Len(s) - Len(p) + 1, Len(s)) = p

\* String.prototype.includes / the same search on decoded bytes.
includes(hay, needle) ==
  \E i \in 1..(Len(hay) - Len(needle) + 1) :
     SubSeq(hay, i, i + Len(needle) - 1) = needle

\* A header that was sent, with its text.
Str(s) == [k |-> "str", s |-> s]

\* String(v || ""): an absent header reads as the empty string.
HeaderStr(v) == IF v = undefined THEN <<>> ELSE v.s

Min(a, b) == IF a < b THEN a ELSE b

Max(a, b) == IF a > b THEN a ELSE b

(* ------------------------- numeric headers ---------------------------- *)

\* Number(value) for the header values used here.  A number is kept in
\* tenths so that Math.floor has something to do; NaN stands for every value
\* that is not finite (an absent header, text, "Infinity").
NaN == [k |-> "NaN"]

Num(tenths) == [k |-> "num", tenths |-> tenths]

Number(value) ==
  CASE value = undefined      -> NaN
    [] value.k = "text"       -> NaN
    [] value.k = "empty"      -> Num(0)
    [] value.k = "num"        -> Num(value.tenths)

\* The parser that gives the fallback for every value outside min..max.
clampInt_fallbackOutside(value, min, max, fallback) ==
  LET n == Number(value) IN
    IF n = NaN THEN fallback
    ELSE IF n.tenths \div 10 < min \/ n.tenths \div 10 > max THEN fallback
    ELSE n.tenths \div 10

\* The parser that rounds down and raises to the minimum, without the maximum.
clampInt_noMaximum(value, min, max, fallback) ==
  LET n == Number(value) IN
    IF n = NaN THEN fallback
    ELSE Max(min, n.tenths \div 10)

clampInt(value, min, max, fallback) ==
  LET n == Number(value) IN
    IF n = NaN THEN fallback
    ELSE Max(min, Min(max, n.tenths \div 10))

(* --------------------------- type checks ------------------------------ *)

ApplicationPdf == <<"a","p","p","l","i","c","a","t","i","o","n","/","p","d","f">>

DotPdf == <<".","p","d","f">>

isPdfRequestOf(contentTypeHdr, filenameHdr) ==
  LET contentType == toLowerCase(HeaderStr(contentTypeHdr))
      filename    == toLowerCase(HeaderStr(filenameHdr))
  IN  startsWith(contentType, ApplicationPdf) \/ endsWith(filename, DotPdf)

\* Buffer bytes are 0..255; toString("ascii") clears the top bit of each.
Ascii(bytes) == [i \in 1..Len(bytes) |-> bytes[i] % 128]

\* buf.toString("ascii", start, end): bytes start..end-1, counted from 0.
toStringAscii(buf, start, end) == Ascii(SubSeq(buf, start + 1, Min(end, Len(buf))))

B_ftyp == <<102, 116, 121, 112>>

B_heic == <<104, 101, 105, 99>>

B_heif == <<104, 101, 105, 102>>

B_heix == <<104, 101, 105, 120>>

B_hevc == <<104, 101, 118, 99>>

B_hevx == <<104, 101, 118, 120>>

B_mif1 == <<109, 105, 102, 49>>

B_msf1 == <<109, 115, 102, 49>>

HeicMinLen == 16

ScanLimit == 256

\* The scan that stops after the first 32 bytes.
looksLikeHeic_first32(buf) ==
  IF buf = undefined \/ Len(buf) < HeicMinLen THEN FALSE
  ELSE IF toStringAscii(buf, 4, 8) # B_ftyp THEN FALSE
  ELSE includes(toStringAscii(buf, 8, Min(Len(buf), 2 * HeicMinLen)), B_heic)

looksLikeHeic(buf) ==
  IF buf = undefined \/ Len(buf) < HeicMinLen THEN FALSE
  ELSE IF toStringAscii(buf, 4, 8) # B_ftyp THEN FALSE
  ELSE LET scanEnd == Min(Len(buf), ScanLimit)
           brands  == toStringAscii(buf, 8, scanEnd)
       IN  \/ includes(brands, B_heic)
           \/ includes(brands, B_heif)
           \/ includes(brands, B_heix)
           \/ includes(brands, B_hevc)
           \/ includes(brands, B_hevx)
           \/ includes(brands, B_mif1)
           \/ includes(brands, B_msf1)

(* --------------------------- the requests ----------------------------- *)

VARIABLES
  token,      \* process.env.CONVERTER_TOKEN: a string, or undefined when unset
  capacity,   \* configured capacity of the admission controller
  req,        \* what each client sent: path, headers, body
  pc,         \* where each request's handler is suspended
  res,        \* each request's response object
  aborted,    \* req.aborted / res.destroyed: the client went away
  disk,       \* the files and directories that exist under /tmp
  uuid,       \* the id drawn by randomUUID() for the request's temp names
  nextUuid,   \* randomUUID() never returns a value twice
  inflight,   \* job slots held
  calls,      \* the external work each request has started, in order
  thrown,     \* the exception a finally block is about to rethrow
  files,      \* /convert/pdf: the filtered, sorted page list
  idx,        \* /convert/pdf: the loop variable i
  archive,    \* /convert/pdf: the archiver object
  proc,       \* the pdftoppm subprocess of each request
  opts,       \* the options each handler parsed from the headers
  pipeline    \* the sharp pipeline the request built last

vars == <<token, capacity, req, pc, res, aborted, disk, uuid, nextUuid,
          inflight, calls, thrown, files, idx, archive, proc, opts, pipeline>>

Secret == <<"s", "3", "c">>

Bearer(t) == <<"B","e","a","r","e","r"," ">> \o t

\* express.raw({ limit: "30mb" }): the body is refused above this many bytes.
BodyLimit == 30 * 1024 * 1024

\* The body on the wire: its leading bytes and how many more megabytes follow.
WireLen(w) == IF w = undefined THEN 0 ELSE Len(w.bytes) + w.padMb * 1024 * 1024

TooLarge(w) == WireLen(w) > BodyLimit

\* req.body after express.raw.
bodyOf(r) == IF req[r].wire = undefined THEN undefined ELSE req[r].wire.bytes

\* The check that forgets the length.
emptyBody_missingOnly(input) == input = undefined

\* !input || input.length === 0
emptyBody(input) == input = undefined \/ Len(input) = 0

isPdfRequest(r) == isPdfRequestOf(req[r].contentType, req[r].filename)

\* String.prototype.trim for the blanks used here.
RECURSIVE trim(_)
trim(s) ==
  IF s = <<>> THEN s
  ELSE IF Head(s) = " " THEN trim(Tail(s))
  ELSE IF s[Len(s)] = " " THEN trim(SubSeq(s, 1, Len(s) - 1))
  ELSE s

Uuid(n) == [k |-> "uuid", n |-> n]

\* The request-context middleware: the inbound id, or a fresh one.
HasInboundId(r) == trim(HeaderStr(req[r].xRequestId)) # <<>>

requestIdOf(r) ==
  IF HasInboundId(r) THEN Str(trim(HeaderStr(req[r].xRequestId))) ELSE Uuid(nextUuid + 1)

isAborted(r) == aborted[r] \/ res[r].ended

isAbortedRes(r, rs) == aborted[r] \/ rs.ended

\* The check that asks no credential of a request without content.
authOk_emptyFirst(r) ==
  \/ req[r].wire = undefined
  \/ Len(req[r].wire.bytes) = 0
  \/ /\ token # undefined
     /\ token.s # <<>>
     /\ HeaderStr(req[r].authorization) = Bearer(token.s)

authOk(r) ==
  /\ token # undefined
  /\ token.s # <<>>
  /\ HeaderStr(req[r].authorization) = Bearer(token.s)

\* A message whose text is written out in the source.
Text(t) == [text |-> t, args |-> <<>>]

\* A template literal, or the message of an Error: its fixed text and the
\* values that are put into it.
Template(t, args) == [text |-> t, args |-> args]

\* A number put into a message.
Numeral(n) == [k |-> "int", n |-> n]

\* What an exception raised below the handlers carries: the text of a library
\* or file-system error, the stderr of the subprocess, the stack.
Internal == [k |-> "internal"]

NoResponse ==
  [status |-> 200, code |-> "", message |-> Text(""), ctype |-> "", headersSent |-> FALSE,
   ended |-> FALSE, retryAfter |-> FALSE, ridHeader |-> undefined,
   envRid |-> undefined, zip |-> 0]

sendError(rs, status, code, message, requestId) ==
  IF rs.headersSent THEN [rs EXCEPT !.ended = TRUE]
  ELSE [rs EXCEPT !.status = status, !.code = code, !.message = message,
                  !.ctype = "json", !.envRid = requestId,
                  !.headersSent = TRUE, !.ended = TRUE]

\* res.setHeader("Content-Type", "image/jpeg"); res.status(200).send(jpeg)
sendJpeg(rs) ==
  [rs EXCEPT !.status = 200, !.ctype = "jpeg", !.headersSent = TRUE, !.ended = TRUE]

(* ------------------------- temporary files ---------------------------- *)

PdfPath(id) == [id |-> id, kind |-> "pdf"]

JpgPath(id) == [id |-> id, kind |-> "jpg"]

OutDir(id) == [id |-> id, kind |-> "pages"]

PagePath(id, name) == [id |-> id, kind |-> "page", name |-> name]

\* safeUnlink: fs.unlink with every error swallowed.
safeUnlink(d, p) == d \ {p}

\* The removal without `recursive`: a directory with entries stays.
safeRmrf_flat(d, id) ==
  IF \E f \in d : f.id = id /\ f.kind = "page" THEN d ELSE d \ {OutDir(id)}

\* safeRmrf: fs.rm(p, { recursive: true, force: true }).
safeRmrf(d, id) == {f \in d : ~(f.id = id /\ f.kind \in {"pages", "page"})}

(* ----------------------- admission controller ------------------------- *)

\* The comparison off by one: one holder too many gets in.
canAcquire_offByOne(held, cap) == held <= cap

\* The comparison that counts the archive requests in flight as holders.
canAcquire_countsArchives(held, cap) ==
  held + Cardinality({r \in Reqs : req[r].path = "/convert/pdf" /\ pc[r] \notin {"absent", "new", "done"}}) < cap

\* acquire succeeds at once while holders < capacity, and fails at once otherwise.
canAcquire(held, cap) == held < cap

acquire(held) == held + 1

\* A release that is skipped.
release_skipped(held) == held

release(held) == held - 1

\* The busy answer without its retry hint.
rejectBusy_noHint(rs, requestId) == sendError(rs, 429, "busy", Text("Busy"), requestId)

\* Callers advertise a short retry hint with the busy answer.
rejectBusy(rs, requestId) ==
  sendError([rs EXCEPT !.retryAfter = TRUE], 429, "busy", Text("Busy"), requestId)

\* The part of the /convert handler that runs with a slot held.
Guarded == {"c_probe", "c_sharp", "c_heif", "c_heifJpeg", "c_writeFile", "c_exec",
            "c_readFile", "c_unlinkPdf", "c_unlinkJpg", "c_pdfSharp"}

HoldsSlot(r) == req[r].path = "/convert" /\ pc[r] \in Guarded

(* ------------------------------ options ------------------------------ *)

null == [k |-> "null"]

\* Before the handler has parsed anything.
NoOptions == [k |-> "none"]

\* clampInt(header, 1, 20000, 0) || null
orNull(n) == IF n = 0 THEN null ELSE Numeral(n)

S_inside == <<"i","n","s","i","d","e">>

S_cover == <<"c","o","v","e","r">>

S_contain == <<"c","o","n","t","a","i","n">>

S_fill == <<"f","i","l","l">>

S_outside == <<"o","u","t","s","i","d","e">>

FitModes == {S_inside, S_cover, S_contain, S_fill, S_outside}

\* String(req.headers["x-fit"] || "inside").toLowerCase(), kept when it is one
\* of the five modes.
fitOf(v) ==
  LET fitRaw == toLowerCase(IF HeaderStr(v) = <<>> THEN S_inside ELSE v.s)
  IN  IF fitRaw \in FitModes THEN fitRaw ELSE S_inside

Truthy == {<<"1">>, <<"t","r","u","e">>, <<"y","e","s">>, <<"y">>, <<"o","n">>}

Falsy == {<<"0">>, <<"f","a","l","s","e">>, <<"n","o">>, <<"n">>, <<"o","f","f">>}

parseBool(v, fallback) ==
  IF v = undefined THEN fallback
  ELSE LET s == trim(toLowerCase(v.s)) IN
         IF s \in Truthy THEN TRUE
         ELSE IF s \in Falsy THEN FALSE
         ELSE fallback

parseResizeOptions(r) ==
  [quality |-> Numeral(clampInt(req[r].xJpegQuality, 0, 100, 100)),
   width   |-> orNull(clampInt(req[r].xWidth, 1, 20000, 0)),
   height  |-> orNull(clampInt(req[r].xHeight, 1, 20000, 0)),
   maxDim  |-> orNull(clampInt(req[r].xMaxDimension, 1, 20000, 0)),
   fit     |-> fitOf(req[r].xFit),
   withoutEnlargement |-> parseBool(req[r].xWithoutEnlargement, TRUE)]

\* width ?? undefined
orUndefined(v) == IF v = null THEN undefined ELSE v

\* pipeline.resize({ width, height, fit, withoutEnlargement })
Resize(width, height, fit, withoutEnlargement) ==
  [op |-> "resize", width |-> width, height |-> height, fit |-> fit,
   withoutEnlargement |-> withoutEnlargement]

\* The resize in which x-max-dimension wins over x-width and x-height.
applyResizeAndJpeg_maxDimFirst(pl, o) ==
  Append(IF o.maxDim # null
           THEN Append(pl, Resize(o.maxDim, o.maxDim, S_inside, o.withoutEnlargement))
         ELSE IF o.width # null \/ o.height # null
           THEN Append(pl, Resize(orUndefined(o.width), orUndefined(o.height), o.fit,
                                  o.withoutEnlargement))
         ELSE pl,
         [op |-> "jpeg", quality |-> o.quality])

\* applyResizeAndJpeg(pipeline, opts): the operations added to a sharp pipeline.
applyResizeAndJpeg(pl, o) ==
  Append(IF o.width # null \/ o.height # null
           THEN Append(pl, Resize(orUndefined(o.width), orUndefined(o.height), o.fit,
                                  o.withoutEnlargement))
         ELSE IF o.maxDim # null
           THEN Append(pl, Resize(o.maxDim, o.maxDim, S_inside, o.withoutEnlargement))
         ELSE pl,
         [op |-> "jpeg", quality |-> o.quality])

\* toJpegWithSharp(inputBuffer, opts): sharp(inputBuffer).rotate(), then the
\* resize and the JPEG encoder.
toJpegWithSharp(o) ==
  applyResizeAndJpeg(<<[op |-> "sharp", input |-> "buffer"], [op |-> "rotate"]>>, o)

\* heicToJpegWithWasm, after the display: sharp(Buffer.from(rgba), { raw }), then
\* the resize and the JPEG encoder.
heicToJpegWithWasm(o) ==
  applyResizeAndJpeg(<<[op |-> "sharp", input |-> "raw"]>>, o)

\* Before the request has built a pipeline.
NoPipeline == <<>>

\* clampInt(req.headers["x-pdf-dpi"], 72, 600, 300)
dpiOf(r) == clampInt(req[r].xPdfDpi, 72, 600, 300)

\* What /convert works with: the resize options; the dpi is the literal 300.
convertOptions(r) ==
  [resize |-> parseResizeOptions(r), dpi |-> Numeral(300), maxPages |-> null]

(* ------------------------------ client -------------------------------- *)

\* The client closes the connection.  The "close"/"aborted" listeners of
\* /convert/pdf abort the archive when there is one.
ClientAbort(r) ==
  /\ pc[r] \notin {"absent", "done"}
  /\ ~aborted[r]
  /\ ~res[r].ended
  /\ aborted' = [aborted EXCEPT ![r] = TRUE]
  /\ archive' = [archive EXCEPT ![r] =
                   IF @.state \in {"open", "finalizing"}
                     THEN [@ EXCEPT !.state = "aborted", !.queued = 0]
                     ELSE @]
  /\ UNCHANGED <<pipeline, proc, opts, token, capacity, req, pc, res, disk, uuid, nextUuid, inflight,
                 calls, thrown, files, idx>>

(* ---------------------------- middleware ------------------------------ *)

\* express.raw refuses the body; express skips the request-context middleware
\* and the route, and the error handler answers.
BodyTooLarge(r) ==
  /\ pc[r] = "new"
  /\ TooLarge(req[r].wire)
  /\ res' = [res EXCEPT ![r] =
               sendError(@, 413, "payload_too_large", Text("Payload too large (max 30mb)"),
                         undefined)]
  /\ pc' = [pc EXCEPT ![r] = "done"]
  /\ UNCHANGED <<pipeline, proc, opts, token, capacity, req, aborted, disk, uuid, nextUuid, inflight,
                 calls, thrown, files, idx, archive>>

\* The request-context middleware draws an id only when none came in.
AfterRequestId(r) == IF HasInboundId(r) THEN nextUuid ELSE nextUuid + 1

\* The key of the temp names taken from the request id when one came in.
tempId_fromRequestId(r, drawn) ==
  IF HasInboundId(r) THEN 0 - Len(trim(HeaderStr(req[r].xRequestId))) ELSE drawn + 1

\* const id = randomUUID(): the key of the request's temp names, a value that
\* no earlier call returned.
tempId(r, drawn) == drawn + 1

(* --------------------------- POST /convert ---------------------------- *)

\* The message of an exception that is not raised by the handlers themselves.
MissingDependencyMessage == "Missing dependency: pdftoppm (not found in PATH)"

EnoentMessage == "ENOENT: no such file or directory"

ExecMessage == "cmd=pdftoppm code=${err.code} signal=${err.signal}; stderr=${stderr}"

errorMessage(kind) ==
  CASE kind = "missing_dependency" -> MissingDependencyMessage
    [] kind = "enoent"             -> EnoentMessage
    [] kind = "exec"               -> ExecMessage
    [] OTHER                       -> kind

\* An exception raised by a library, the file system or execFilePromise.
Error(kind) ==
  [statusCode |-> 0, code |-> "", message |-> Template(errorMessage(kind), <<Internal>>)]

\* The exception of assertSupportedRasterImage; String(content-type || "unknown").
unsupportedError(r) ==
  [statusCode |-> 415, code |-> "unsupported_media_type",
   message |-> Template("Unsupported input (not a decodable image). content-type=${ct}",
                        <<IF HeaderStr(req[r].contentType) = <<>>
                            THEN Str(<<"u","n","k","n","o","w","n">>)
                            ELSE req[r].contentType>>)]

\* The catch block that answers every exception as an unsupported input.
convertCatch_always415(rs, e, requestId) ==
  sendError(rs, 415, "unsupported_media_type", e.message, requestId)

\* The catch block of /convert.
convertCatch(rs, e, requestId) ==
  IF e.statusCode = 415
    THEN sendError(rs, 415, IF e.code # "" THEN e.code ELSE "unsupported_media_type",
                   e.message, requestId)
    ELSE sendError(rs, 500, "conversion_failed", Text("Conversion failed"), requestId)

\* The handler returns with a slot held: the slot goes back.
ConvertReturn(r, rs) ==
  /\ pc' = [pc EXCEPT ![r] = "done"]
  /\ res' = [res EXCEPT ![r] = rs]
  /\ inflight' = release(inflight)

\* The handler, still holding its slot, suspends at the next await.
ConvertAwait(r, at) ==
  /\ pc' = [pc EXCEPT ![r] = at]
  /\ UNCHANGED <<res, inflight>>

\* Entry of the handler up to its first await.
ConvertStart(r) ==
  /\ pc[r] = "new"
  /\ req[r].path = "/convert"
  /\ ~TooLarge(req[r].wire)
  /\ LET requestId == requestIdOf(r)
         rs        == [res[r] EXCEPT !.ridHeader = requestId]
         input     == bodyOf(r)
     IN
       IF ~authOk(r) THEN
         /\ res' = [res EXCEPT ![r] = sendError(rs, 401, "unauthorized", Text("Unauthorized"), requestId)]
         /\ pc' = [pc EXCEPT ![r] = "done"]
         /\ nextUuid' = AfterRequestId(r)
         /\ UNCHANGED <<inflight, uuid, calls, opts, pipeline>>
       ELSE IF isAborted(r) THEN
         /\ res' = [res EXCEPT ![r] = rs]
         /\ pc' = [pc EXCEPT ![r] = "done"]
         /\ nextUuid' = AfterRequestId(r)
         /\ UNCHANGED <<inflight, uuid, calls, opts, pipeline>>
       ELSE IF emptyBody(input) THEN
         /\ res' = [res EXCEPT ![r] = sendError(rs, 400, "empty_body", Text("Empty body"), requestId)]
         /\ pc' = [pc EXCEPT ![r] = "done"]
         /\ nextUuid' = AfterRequestId(r)
         /\ UNCHANGED <<inflight, uuid, calls, opts, pipeline>>
       ELSE IF ~canAcquire(inflight, capacity) THEN
         /\ res' = [res EXCEPT ![r] = rejectBusy(rs, requestId)]
         /\ pc' = [pc EXCEPT ![r] = "done"]
         /\ nextUuid' = AfterRequestId(r)
         /\ UNCHANGED <<inflight, uuid, calls, opts, pipeline>>
       ELSE IF isPdfRequest(r) THEN
         \* pdfFirstPageToJpeg: id = randomUUID(); await fs.writeFile(pdfPath, ...)
         /\ res' = [res EXCEPT ![r] = rs]
         /\ opts' = [opts EXCEPT ![r] = convertOptions(r)]
         /\ inflight' = acquire(inflight)
         /\ uuid' = [uuid EXCEPT ![r] = tempId(r, AfterRequestId(r))]
         /\ nextUuid' = AfterRequestId(r) + 1
         /\ calls' = [calls EXCEPT ![r] = Append(@, "writeFile")]
         /\ pc' = [pc EXCEPT ![r] = "c_writeFile"]
         /\ UNCHANGED pipeline
       ELSE IF looksLikeHeic(input) THEN
         \* assertSupportedRasterImage returns at once; toJpegWithSharp starts
         /\ res' = [res EXCEPT ![r] = rs]
         /\ opts' = [opts EXCEPT ![r] = convertOptions(r)]
         /\ inflight' = acquire(inflight)
         /\ nextUuid' = AfterRequestId(r)
         /\ calls' = [calls EXCEPT ![r] = Append(@, "sharp")]
         /\ pipeline' = [pipeline EXCEPT ![r] = toJpegWithSharp(parseResizeOptions(r))]
         /\ pc' = [pc EXCEPT ![r] = "c_sharp"]
         /\ UNCHANGED uuid
       ELSE
         \* assertSupportedRasterImage: await sharp(input).metadata()
         /\ res' = [res EXCEPT ![r] = rs]
         /\ opts' = [opts EXCEPT ![r] = convertOptions(r)]
         /\ inflight' = acquire(inflight)
         /\ nextUuid' = AfterRequestId(r)
         /\ calls' = [calls EXCEPT ![r] = Append(@, "metadata")]
         /\ pc' = [pc EXCEPT ![r] = "c_probe"]
         /\ UNCHANGED <<uuid, pipeline>>
  /\ UNCHANGED <<proc, token, capacity, req, aborted, disk, thrown, files, idx, archive>>

\* The metadata probe settles.
ConvertProbe(r) ==
  /\ pc[r] = "c_probe"
  /\ \E ok \in BOOLEAN :
       IF ok
         THEN /\ ConvertAwait(r, "c_sharp")
              /\ calls' = [calls EXCEPT ![r] = Append(@, "sharp")]
              /\ pipeline' = [pipeline EXCEPT ![r] = toJpegWithSharp(opts[r].resize)]
         ELSE /\ ConvertReturn(r, convertCatch(res[r], unsupportedError(r),
                                               res[r].ridHeader))
              /\ UNCHANGED <<calls, pipeline>>
  /\ UNCHANGED <<proc, opts, token, capacity, req, aborted, disk, uuid, nextUuid, thrown,
                 files, idx, archive>>

\* The fast path without the fallback: every failure of sharp is rethrown.
ConvertSharp_noFallback(r) ==
  /\ pc[r] = "c_sharp"
  /\ \E ok \in BOOLEAN :
       IF ok
         THEN ConvertReturn(r, IF isAborted(r) THEN res[r] ELSE sendJpeg(res[r]))
         ELSE ConvertReturn(r, convertCatch(res[r], Error("sharp"), res[r].ridHeader))
  /\ UNCHANGED <<pipeline, proc, opts, token, capacity, req, aborted, disk, uuid, nextUuid, calls,
                 thrown, files, idx, archive>>

\* toJpegWithSharp settles on the fast path.
ConvertSharp(r) ==
  /\ pc[r] = "c_sharp"
  /\ \E ok \in BOOLEAN :
       IF ok THEN
         /\ ConvertReturn(r, IF isAborted(r) THEN res[r] ELSE sendJpeg(res[r]))
         /\ UNCHANGED calls
       ELSE IF looksLikeHeic(bodyOf(r)) THEN
         \* heicToJpegWithWasm: decoder.decode(inputBuffer), then the display
         /\ calls' = [calls EXCEPT ![r] = Append(@, "heif")]
         /\ \E decoded \in BOOLEAN :
              IF decoded
                THEN ConvertAwait(r, "c_heif")
                ELSE ConvertReturn(r, convertCatch(res[r], Error("heif"), res[r].ridHeader))
       ELSE
         /\ ConvertReturn(r, convertCatch(res[r], Error("sharp"), res[r].ridHeader))
         /\ UNCHANGED calls
  /\ UNCHANGED <<pipeline, proc, opts, token, capacity, req, aborted, disk, uuid, nextUuid, thrown,
                 files, idx, archive>>

\* heifDisplayToRGBA settles; on success the raw pixels go to sharp.
ConvertHeifDisplay(r) ==
  /\ pc[r] = "c_heif"
  /\ \E ok \in BOOLEAN :
       IF ok
         THEN /\ ConvertAwait(r, "c_heifJpeg")
              /\ pipeline' = [pipeline EXCEPT ![r] = heicToJpegWithWasm(opts[r].resize)]
         ELSE /\ ConvertReturn(r, convertCatch(res[r], Error("heif"), res[r].ridHeader))
              /\ UNCHANGED pipeline
  /\ UNCHANGED <<proc, opts, token, capacity, req, aborted, disk, uuid, nextUuid, calls, thrown,
                 files, idx, archive>>

\* applyResizeAndJpeg(...).toBuffer() of the decoded HEIF image settles.
ConvertHeifJpeg(r) ==
  /\ pc[r] = "c_heifJpeg"
  /\ \E ok \in BOOLEAN :
       IF ok
         THEN ConvertReturn(r, IF isAborted(r) THEN res[r] ELSE sendJpeg(res[r]))
         ELSE ConvertReturn(r, convertCatch(res[r], Error("heif"), res[r].ridHeader))
  /\ UNCHANGED <<pipeline, proc, opts, token, capacity, req, aborted, disk, uuid, nextUuid, calls, thrown,
                 files, idx, archive>>

(* ----------------- POST /convert: pdfFirstPageToJpeg ------------------ *)

\* fs.writeFile(pdfPath, inputBuffer) settles.  A failed write may leave the
\* file.  After a good write execFilePromise starts pdftoppm.
ConvertWriteFile(r) ==
  /\ pc[r] = "c_writeFile"
  /\ \E ok \in BOOLEAN, left \in BOOLEAN :
       /\ ok => left
       /\ disk' = IF left THEN disk \cup {PdfPath(uuid[r])} ELSE disk
       /\ IF ok
            THEN /\ calls' = [calls EXCEPT ![r] = Append(@, "pdftoppm")]
                 /\ proc' = [proc EXCEPT ![r] = "running"]
                 /\ ConvertAwait(r, "c_exec")
                 /\ UNCHANGED thrown
            ELSE /\ thrown' = [thrown EXCEPT ![r] = "fs"]
                 /\ ConvertAwait(r, "c_unlinkPdf")
                 /\ UNCHANGED <<calls, proc>>
  /\ UNCHANGED <<pipeline, opts, token, capacity, req, aborted, uuid, nextUuid, files, idx, archive>>

\* The callback of execFile runs: execFilePromise("pdftoppm", [..., "-singlefile",
\* pdfPath, outPrefix]) resolves, or rejects with the missing-dependency error
\* or with the error that carries the stderr.
ConvertExec(r) ==
  /\ pc[r] = "c_exec"
  /\ proc[r] \in {"ok", "missing", "failed"}
  /\ IF proc[r] = "ok"
       THEN /\ calls' = [calls EXCEPT ![r] = Append(@, "readFile")]
            /\ ConvertAwait(r, "c_readFile")
            /\ UNCHANGED thrown
       ELSE /\ thrown' = [thrown EXCEPT ![r] =
                            IF proc[r] = "missing" THEN "missing_dependency" ELSE "exec"]
            /\ ConvertAwait(r, "c_unlinkPdf")
            /\ UNCHANGED calls
  /\ UNCHANGED <<pipeline, proc, opts, token, capacity, req, aborted, disk, uuid, nextUuid, files,
                 idx, archive>>

\* fs.readFile(`${outPrefix}.jpg`) settles; toJpegWithSharp is started and its
\* promise returned, so the finally block runs before the promise is awaited.
ConvertReadFile(r) ==
  /\ pc[r] = "c_readFile"
  /\ IF JpgPath(uuid[r]) \in disk
       THEN /\ calls' = [calls EXCEPT ![r] = Append(@, "sharp")]
            /\ pipeline' = [pipeline EXCEPT ![r] = toJpegWithSharp(opts[r].resize)]
            /\ UNCHANGED thrown
       ELSE /\ thrown' = [thrown EXCEPT ![r] = "enoent"]
            /\ UNCHANGED <<calls, pipeline>>
  /\ ConvertAwait(r, "c_unlinkPdf")
  /\ UNCHANGED <<proc, opts, token, capacity, req, aborted, disk, uuid, nextUuid, files, idx, archive>>

\* finally: await safeUnlink(pdfPath)
ConvertUnlinkPdf(r) ==
  /\ pc[r] = "c_unlinkPdf"
  /\ disk' = safeUnlink(disk, PdfPath(uuid[r]))
  /\ ConvertAwait(r, "c_unlinkJpg")
  /\ UNCHANGED <<pipeline, proc, opts, token, capacity, req, aborted, uuid, nextUuid, calls, thrown,
                 files, idx, archive>>

\* finally: await safeUnlink(`${outPrefix}.jpg`); then the exception, if any,
\* reaches the handler's catch block.
ConvertUnlinkJpg(r) ==
  /\ pc[r] = "c_unlinkJpg"
  /\ disk' = safeUnlink(disk, JpgPath(uuid[r]))
  /\ IF thrown[r] # ""
       THEN ConvertReturn(r, convertCatch(res[r], Error(thrown[r]), res[r].ridHeader))
       ELSE ConvertAwait(r, "c_pdfSharp")
  /\ thrown' = [thrown EXCEPT ![r] = ""]
  /\ UNCHANGED <<pipeline, proc, opts, token, capacity, req, aborted, uuid, nextUuid, calls, files, idx,
                 archive>>

\* The promise returned by pdfFirstPageToJpeg settles.
ConvertPdfSharp(r) ==
  /\ pc[r] = "c_pdfSharp"
  /\ \E ok \in BOOLEAN :
       IF ok
         THEN ConvertReturn(r, IF isAborted(r) THEN res[r] ELSE sendJpeg(res[r]))
         ELSE ConvertReturn(r, convertCatch(res[r], Error("sharp"), res[r].ridHeader))
  /\ UNCHANGED <<pipeline, proc, opts, token, capacity, req, aborted, disk, uuid, nextUuid, calls, thrown,
                 files, idx, archive>>

(* ------------------------- page file names ---------------------------- *)

Digits == <<"0","1","2","3","4","5","6","7","8","9">>

IsDigit(c) == \E d \in 1..10 : Digits[d] = c

DigitVal(c) == (CHOOSE d \in 1..10 : Digits[d] = c) - 1

RECURSIVE Decimal(_)
Decimal(ds) ==
  IF ds = <<>> THEN 0
  ELSE 10 * Decimal(SubSeq(ds, 1, Len(ds) - 1)) + DigitVal(ds[Len(ds)])

S_page == <<"p","a","g","e","-">>

S_jpg == <<".","j","p","g">>

\* The filter that lets every directory entry through.
isPageFile_any(f) == TRUE

\* /^page-\d+\.jpg$/i.test(f)
isPageFile(f) ==
  LET l == toLowerCase(f) IN
    /\ Len(l) >= Len(S_page) + 1 + Len(S_jpg)
    /\ startsWith(l, S_page)
    /\ endsWith(l, S_jpg)
    /\ \A j \in (Len(S_page) + 1)..(Len(l) - Len(S_jpg)) : IsDigit(l[j])

\* filename.match(/page-(\d+)\.jpg/i) at position s, the digits ending at e.
PageMatch(l, s, e) ==
  /\ s + 4 <= Len(l)
  /\ SubSeq(l, s, s + 4) = S_page
  /\ e >= s + 5
  /\ e + 4 <= Len(l)
  /\ \A j \in (s + 5)..e : IsDigit(l[j])
  /\ SubSeq(l, e + 1, e + 4) = S_jpg

\* The page number read from the first digit only, as a comparison of the
\* names character by character does.
pageNum_firstDigit(filename) ==
  LET l == toLowerCase(filename) IN
    IF Len(l) >= 6 /\ IsDigit(l[6]) THEN DigitVal(l[6]) ELSE 0

pageNum(filename) ==
  LET l      == toLowerCase(filename)
      starts == {s \in 1..Len(l) : s + 4 <= Len(l) /\ SubSeq(l, s, s + 4) = S_page}
      hits   == {se \in starts \X (1..Len(l)) : PageMatch(l, se[1], se[2])}
  IN  IF hits = {} THEN 0
      ELSE LET first == CHOOSE se \in hits : \A o \in hits : se[1] <= o[1]
           IN  Decimal(SubSeq(l, first[1] + 5, first[2]))

\* The name pdftoppm gives page k.
PageName(k) == S_page \o <<Digits[k + 1]>> \o S_jpg

\* fs.readdir(outDir): the names in the directory, in any order.
Listings(names) ==
  {l \in [1..Cardinality(names) -> names] : \A a, b \in DOMAIN l : a # b => l[a] # l[b]}

\* .filter(...).sort((a, b) => pageNum(a) - pageNum(b)): a stable sort, so names
\* with equal page numbers stay in directory order.
PageLists(names) ==
  LET pages == {f \in names : isPageFile(f)}
      num   == [f \in pages |-> pageNum(f)]
  IN  {l \in Listings(pages) :
         \A a, b \in DOMAIN l : a < b => num[l[a]] <= num[l[b]]}

DirNames(d, id) == {f.name : f \in {g \in d : g.id = id /\ g.kind = "page"}}

\* clampInt(req.headers["x-pdf-max-pages"], 1, 200, 50)
maxPagesOf(r) == clampInt(req[r].xPdfMaxPages, 1, 200, 50)

\* What /convert/pdf works with: opts, dpi and maxPages.
pdfOptions(r) ==
  [resize |-> parseResizeOptions(r), dpi |-> Numeral(dpiOf(r)),
   maxPages |-> Numeral(maxPagesOf(r))]

(* ------------------------- the rasterizer ----------------------------- *)

\* A file in the output directory whose name is no page name.
StrayName == <<"p","a","g","e",".","j","p","g">>

\* The pdftoppm subprocess ends by itself: it could not be started (ENOENT), it
\* exited with status 0, or it exited with an error.  With -singlefile it
\* writes ${outPrefix}.jpg; without, one file per page of the document, all of
\* them before it exits.  A run that wrote no page may leave another file.
RasterizerExit(r) ==
  /\ proc[r] = "running"
  /\ \E outcome \in {"ok", "missing", "failed"} :
       /\ proc' = [proc EXCEPT ![r] = outcome]
       /\ IF req[r].path = "/convert"
            THEN \E left \in BOOLEAN :
                   /\ outcome = "missing" => ~left
                   /\ disk' = IF left THEN disk \cup {JpgPath(uuid[r])} ELSE disk
            ELSE \E n \in 0..MaxProduced, stray \in BOOLEAN :
                   /\ outcome = "missing" => n = 0
                   /\ stray => (n = 0 /\ outcome # "missing")
                   /\ disk' = disk \cup {PagePath(uuid[r], PageName(k)) : k \in 1..n}
                                   \cup (IF stray THEN {PagePath(uuid[r], StrayName)} ELSE {})
  /\ UNCHANGED <<pipeline, opts, token, capacity, req, pc, res, aborted, uuid, nextUuid, inflight,
                 calls, thrown, files, idx, archive>>

\* Names a directory listing may hold: page names of one and two digits, one
\* with a leading zero, one in capitals, and names that are no page names (no
\* digits, text before "page-", text after ".jpg", a letter among the digits).
OutputNames ==
  { <<"p","a","g","e","-","1",".","j","p","g">>,
    <<"p","a","g","e","-","2",".","j","p","g">>,
    <<"p","a","g","e","-","1","0",".","j","p","g">>,
    <<"p","a","g","e","-","0","2",".","j","p","g">>,
    <<"P","A","G","E","-","3",".","J","P","G">>,
    StrayName,
    <<"x","p","a","g","e","-","1",".","j","p","g">>,
    <<"p","a","g","e","-","1",".","j","p","g",".","b","a","k">>,
    <<"p","a","g","e","-","1","x",".","j","p","g">> }

\* The pdftoppm subprocess of /convert/pdf exits with status 0; nothing is
\* assumed of the names it leaves in the output directory.
RasterizerLeaves(r) ==
  /\ proc[r] = "running"
  /\ req[r].path = "/convert/pdf"
  /\ proc' = [proc EXCEPT ![r] = "ok"]
  /\ \E names \in SUBSET OutputNames :
       /\ Cardinality(names) <= MaxProduced
       /\ disk' = disk \cup {PagePath(uuid[r], f) : f \in names}
  /\ UNCHANGED <<pipeline, opts, token, capacity, req, pc, res, aborted, uuid, nextUuid, inflight,
                 calls, thrown, files, idx, archive>>

(* ------------------------- POST /convert/pdf -------------------------- *)

\* The catch block that answers without looking at res.headersSent.
pdfCatch_unguarded(rs, e, requestId) ==
  [rs EXCEPT !.status = 500, !.code = "conversion_failed",
             !.message = Text("Conversion failed"), !.ctype = "json",
             !.envRid = requestId, !.headersSent = TRUE, !.ended = TRUE]

\* The catch block of /convert/pdf.
pdfCatch(rs, e, requestId) ==
  IF rs.headersSent THEN [rs EXCEPT !.ended = TRUE]
  ELSE sendError(rs, 500, "conversion_failed",
                 IF e.message.text \in {MissingDependencyMessage, EnoentMessage}
                   THEN Text("Server missing PDF rendering dependency")
                   ELSE Text("Conversion failed"),
                 requestId)

\* Leaving the try block: the finally block starts with await safeUnlink(pdfPath).
PdfLeave(r, rs) ==
  /\ pc' = [pc EXCEPT ![r] = "p_unlink"]
  /\ res' = [res EXCEPT ![r] = rs]

\* Entry of the handler up to its first await.  The temp names are fixed first.
ConvertPdfStart(r) ==
  /\ pc[r] = "new"
  /\ req[r].path = "/convert/pdf"
  /\ ~TooLarge(req[r].wire)
  /\ uuid' = [uuid EXCEPT ![r] = tempId(r, AfterRequestId(r))]
  /\ nextUuid' = AfterRequestId(r) + 1
  /\ LET requestId == requestIdOf(r)
         rs        == [res[r] EXCEPT !.ridHeader = requestId]
     IN
       IF ~authOk(r) THEN
         /\ PdfLeave(r, sendError(rs, 401, "unauthorized", Text("Unauthorized"), requestId))
         /\ UNCHANGED <<calls, opts>>
       ELSE IF isAborted(r) THEN
         /\ PdfLeave(r, rs)
         /\ UNCHANGED <<calls, opts>>
       ELSE IF emptyBody(bodyOf(r)) THEN
         /\ PdfLeave(r, sendError(rs, 400, "empty_body", Text("Empty body"), requestId))
         /\ UNCHANGED <<calls, opts>>
       ELSE IF ~isPdfRequest(r) THEN
         /\ PdfLeave(r, sendError(rs, 415, "unsupported_media_type",
                                  Text("This endpoint only accepts PDFs"), requestId))
         /\ UNCHANGED <<calls, opts>>
       ELSE
         /\ res' = [res EXCEPT ![r] = rs]
         /\ opts' = [opts EXCEPT ![r] = pdfOptions(r)]
         /\ calls' = [calls EXCEPT ![r] = Append(@, "mkdir")]
         /\ pc' = [pc EXCEPT ![r] = "p_mkdir"]
  /\ UNCHANGED <<pipeline, proc, token, capacity, req, aborted, disk, inflight, thrown, files, idx,
                 archive>>

\* fs.mkdir(outDir, { recursive: true }) settles.
PdfMkdir(r) ==
  /\ pc[r] = "p_mkdir"
  /\ \E ok \in BOOLEAN :
       IF ok
         THEN /\ disk' = disk \cup {OutDir(uuid[r])}
              /\ calls' = [calls EXCEPT ![r] = Append(@, "writeFile")]
              /\ pc' = [pc EXCEPT ![r] = "p_writeFile"]
              /\ UNCHANGED res
         ELSE /\ PdfLeave(r, pdfCatch(res[r], Error("fs"), res[r].ridHeader))
              /\ UNCHANGED <<disk, calls>>
  /\ UNCHANGED <<pipeline, proc, opts, token, capacity, req, aborted, uuid, nextUuid, inflight, thrown,
                 files, idx, archive>>

\* fs.writeFile(pdfPath, input) settles; then the abort check before rendering,
\* and execFilePromise starts pdftoppm.
PdfWriteFile(r) ==
  /\ pc[r] = "p_writeFile"
  /\ \E ok \in BOOLEAN, left \in BOOLEAN :
       /\ ok => left
       /\ disk' = IF left THEN disk \cup {PdfPath(uuid[r])} ELSE disk
       /\ IF ~ok THEN
            /\ PdfLeave(r, pdfCatch(res[r], Error("fs"), res[r].ridHeader))
            /\ UNCHANGED <<calls, proc>>
          ELSE IF isAborted(r) THEN
            /\ PdfLeave(r, res[r])
            /\ UNCHANGED <<calls, proc>>
          ELSE
            /\ calls' = [calls EXCEPT ![r] = Append(@, "pdftoppm")]
            /\ proc' = [proc EXCEPT ![r] = "running"]
            /\ pc' = [pc EXCEPT ![r] = "p_exec"]
            /\ UNCHANGED res
  /\ UNCHANGED <<pipeline, opts, token, capacity, req, aborted, uuid, nextUuid, inflight, thrown,
                 files, idx, archive>>

\* The callback of execFile runs: execFilePromise("pdftoppm", ["-jpeg", "-r", dpi,
\* pdfPath, outPrefix]) resolves and fs.readdir starts, or it rejects.
PdfExec(r) ==
  /\ pc[r] = "p_exec"
  /\ proc[r] \in {"ok", "missing", "failed"}
  /\ IF proc[r] = "ok"
       THEN /\ calls' = [calls EXCEPT ![r] = Append(@, "readdir")]
            /\ pc' = [pc EXCEPT ![r] = "p_readdir"]
            /\ UNCHANGED res
       ELSE /\ PdfLeave(r, pdfCatch(res[r],
                            Error(IF proc[r] = "missing" THEN "missing_dependency"
                                  ELSE "exec"),
                            res[r].ridHeader))
            /\ UNCHANGED calls
  /\ UNCHANGED <<pipeline, proc, opts, token, capacity, req, aborted, disk, uuid, nextUuid, inflight,
                 thrown, files, idx, archive>>

\* String(n) for a natural number.
RECURSIVE StringOf(_)
StringOf(n) ==
  IF n < 10 THEN <<Digits[n + 1]>>
  ELSE StringOf(n \div 10) \o <<Digits[(n % 10) + 1]>>

\* The name without the padding.
padStart_none(str, targetLength, padString) == str

\* String.prototype.padStart with a one-character pad.
padStart(str, targetLength, padString) ==
  IF Len(str) >= targetLength THEN str
  ELSE [j \in 1..(targetLength - Len(str)) |-> padString] \o str

\* n = String(i + 1).padStart(3, "0"); the entry is named `${n}.jpg`.
entryName(i) == padStart(StringOf(i + 1), 3, "0") \o S_jpg

\* The page-count check left out.
tooManyPages_never(n, maxPages) == FALSE

\* The page-count check off by one.
tooManyPages_offByOne(n, maxPages) == n > maxPages + 1

\* if (files.length > maxPages)
tooManyPages(n, maxPages) == n > maxPages

\* The finalize that is not guarded by the abort check.
finalizeWanted_always(ab) == TRUE

\* if (!isAborted(req, res)) await archive.finalize()
finalizeWanted(ab) == ~ab

\* What follows the for loop (after its last pass or after a break).
PdfAfterLoop(r, rs, arch, log) ==
  IF finalizeWanted(isAbortedRes(r, rs))
    THEN /\ archive' = [archive EXCEPT ![r] =
                          IF arch.state = "open" THEN [arch EXCEPT !.state = "finalizing"]
                          ELSE arch]
         /\ calls' = [calls EXCEPT ![r] = Append(log, "finalize")]
         /\ pc' = [pc EXCEPT ![r] = "p_finalize"]
         /\ res' = [res EXCEPT ![r] = rs]
    ELSE /\ archive' = [archive EXCEPT ![r] = arch]
         /\ calls' = [calls EXCEPT ![r] = log]
         /\ PdfLeave(r, rs)

\* The top of the for loop with loop variable i, up to the next await.
PdfLoop(r, rs, arch, log, i, n) ==
  IF i < n THEN
    IF isAbortedRes(r, rs)
      THEN /\ PdfAfterLoop(r, rs, arch, log)
           /\ idx' = [idx EXCEPT ![r] = i]
      ELSE /\ archive' = [archive EXCEPT ![r] = arch]
           /\ calls' = [calls EXCEPT ![r] = Append(log, "readFile")]
           /\ pc' = [pc EXCEPT ![r] = "p_readFile"]
           /\ res' = [res EXCEPT ![r] = rs]
           /\ idx' = [idx EXCEPT ![r] = i]
  ELSE
    /\ PdfAfterLoop(r, rs, arch, log)
    /\ idx' = [idx EXCEPT ![r] = i]

\* fs.readdir(outDir) settles: the page list, the two page-count checks, the
\* response head, the archive, and the first pass of the loop up to its await.
PdfReaddir(r) ==
  /\ pc[r] = "p_readdir"
  /\ \E list \in PageLists(DirNames(disk, uuid[r])) :
       /\ files' = [files EXCEPT ![r] = list]
       /\ IF Len(list) = 0 THEN
            /\ PdfLeave(r, sendError(res[r], 500, "pdf_render_failed",
                                     Text("PDF render produced no pages"), res[r].ridHeader))
            /\ UNCHANGED <<calls, archive, idx>>
          ELSE IF tooManyPages(Len(list), maxPagesOf(r)) THEN
            /\ PdfLeave(r, sendError(res[r], 413, "pdf_too_many_pages",
                                     Template("PDF has ${files.length} pages; exceeds maxPages=${maxPages}",
                                              <<Numeral(Len(list)), Numeral(maxPagesOf(r))>>),
                                     res[r].ridHeader))
            /\ UNCHANGED <<calls, archive, idx>>
          ELSE
            PdfLoop(r, [res[r] EXCEPT !.status = 200, !.ctype = "zip"],
                    [state |-> "open", queued |-> 0, entries |-> <<>>],
                    Append(calls[r], "archiver"), 0,
                    Len(list))
  /\ UNCHANGED <<pipeline, proc, opts, token, capacity, req, aborted, disk, uuid, nextUuid, inflight, thrown>>

\* fs.readFile(pagePath) settles; the page goes to toJpegWithSharp.
PdfReadFile(r) ==
  /\ pc[r] = "p_readFile"
  /\ IF PagePath(uuid[r], files[r][idx[r] + 1]) \in disk
       THEN /\ calls' = [calls EXCEPT ![r] = Append(@, "sharp")]
            /\ pipeline' = [pipeline EXCEPT ![r] = toJpegWithSharp(opts[r].resize)]
            /\ pc' = [pc EXCEPT ![r] = "p_sharp"]
            /\ UNCHANGED res
       ELSE /\ PdfLeave(r, pdfCatch(res[r], Error("enoent"), res[r].ridHeader))
            /\ UNCHANGED <<calls, pipeline>>
  /\ UNCHANGED <<proc, opts, token, capacity, req, aborted, disk, uuid, nextUuid, inflight, thrown,
                 files, idx, archive>>

\* toJpegWithSharp(pageBuf, opts) settles; the abort check, the append and the
\* next pass of the loop up to its await.
PdfSharp(r) ==
  /\ pc[r] = "p_sharp"
  /\ \E ok \in BOOLEAN :
       IF ~ok THEN
         /\ PdfLeave(r, pdfCatch(res[r], Error("sharp"), res[r].ridHeader))
         /\ UNCHANGED <<calls, archive, idx>>
       ELSE IF isAborted(r) THEN
         /\ PdfAfterLoop(r, res[r], archive[r], calls[r])
         /\ UNCHANGED idx
       ELSE
         PdfLoop(r, res[r],
                 [archive[r] EXCEPT
                    !.queued = @ + 1,
                    !.entries = Append(@, [name |-> entryName(idx[r]),
                                           page |-> files[r][idx[r] + 1]])],
                 Append(calls[r], "append"), idx[r] + 1, Len(files[r]))
  /\ UNCHANGED <<pipeline, proc, opts, token, capacity, req, aborted, disk, uuid, nextUuid, inflight, thrown,
                 files>>

\* The archiver compresses a queued entry and pipes it into the response; the
\* first write sends the response head.
ArchiveDrain(r) ==
  /\ archive[r].state \in {"open", "finalizing"}
  /\ archive[r].queued > 0
  /\ ~aborted[r]
  /\ ~res[r].ended
  /\ archive' = [archive EXCEPT ![r].queued = @ - 1]
  /\ res' = [res EXCEPT ![r].zip = @ + 1, ![r].headersSent = TRUE]
  /\ UNCHANGED <<pipeline, proc, opts, token, capacity, req, pc, aborted, disk, uuid, nextUuid, inflight,
                 calls, thrown, files, idx>>

\* The archiver emits "error"; the listener answers zip_failed when no byte of
\* the response has been sent, and ends the response otherwise.
ArchiveError(r) ==
  /\ archive[r].state \in {"open", "finalizing"}
  /\ archive' = [archive EXCEPT ![r] = [@ EXCEPT !.state = "failed", !.queued = 0]]
  /\ res' = [res EXCEPT ![r] =
               IF ~@.headersSent
                 THEN sendError(@, 500, "zip_failed", Text("ZIP creation failed"), @.ridHeader)
                 ELSE [@ EXCEPT !.ended = TRUE]]
  /\ UNCHANGED <<pipeline, proc, opts, token, capacity, req, pc, aborted, disk, uuid, nextUuid,
                 inflight, calls, thrown, files, idx>>

\* await archive.finalize() settles: the central directory is written and the
\* pipe ends the response, or the archive was aborted meanwhile, or the archive
\* has failed and the promise rejects.
PdfFinalize(r) ==
  /\ pc[r] = "p_finalize"
  /\ \/ /\ archive[r].state = "finalizing"
        /\ archive[r].queued = 0
        /\ archive' = [archive EXCEPT ![r].state = "final"]
        /\ PdfLeave(r, [res[r] EXCEPT !.zip = @ + 1, !.headersSent = TRUE, !.ended = TRUE])
     \/ /\ archive[r].state = "aborted"
        /\ PdfLeave(r, res[r])
        /\ UNCHANGED archive
     \/ /\ archive[r].state = "failed"
        /\ PdfLeave(r, pdfCatch(res[r], Error("zip"), res[r].ridHeader))
        /\ UNCHANGED archive
  /\ UNCHANGED <<pipeline, proc, opts, token, capacity, req, aborted, disk, uuid, nextUuid, inflight, calls,
                 thrown, files, idx>>

\* finally: await safeUnlink(pdfPath)
PdfUnlink(r) ==
  /\ pc[r] = "p_unlink"
  /\ disk' = safeUnlink(disk, PdfPath(uuid[r]))
  /\ pc' = [pc EXCEPT ![r] = "p_rmrf"]
  /\ UNCHANGED <<pipeline, proc, opts, token, capacity, req, res, aborted, uuid, nextUuid, inflight, calls,
                 thrown, files, idx, archive>>

\* finally: await safeRmrf(outDir); the handler returns.
PdfRmrf(r) ==
  /\ pc[r] = "p_rmrf"
  /\ disk' = safeRmrf(disk, uuid[r])
  /\ pc' = [pc EXCEPT ![r] = "done"]
  /\ UNCHANGED <<pipeline, proc, opts, token, capacity, req, res, aborted, uuid, nextUuid, inflight, calls,
                 thrown, files, idx, archive>>

(* --------------------------- what is sent ----------------------------- *)

S_imageJpeg == <<"i","m","a","g","e","/","j","p","e","g">>

S_imageHeic == <<"i","m","a","g","e","/","h","e","i","c">>

S_ApplicationPDF == <<"A","p","p","l","i","c","a","t","i","o","n","/","P","D","F",";","q">>

S_scanPdf == <<"s","c","a","n",".","P","D","F">>

S_photoHeic == <<"p","h","o","t","o",".","h","e","i","c">>

\* Leading bytes of a JPEG and of a PDF.
JpegBytes == <<255, 216, 255, 224>>

PdfBytes == <<37, 80, 68, 70, 45>>

Wire(bytes) == [bytes |-> bytes, padMb |-> 0]

Request(path, authorization, contentType, filename, wire, options, xRequestId) ==
  [path |-> path, authorization |-> authorization, contentType |-> contentType,
   filename |-> filename, wire |-> wire, xRequestId |-> xRequestId,
   xJpegQuality |-> options.xJpegQuality, xMaxDimension |-> options.xMaxDimension,
   xWidth |-> options.xWidth, xHeight |-> options.xHeight,
   xPdfDpi |-> options.xPdfDpi, xPdfMaxPages |-> options.xPdfMaxPages,
   xFit |-> options.xFit, xWithoutEnlargement |-> options.xWithoutEnlargement]

\* A ftyp box of HeicMinLen bytes or more: `before` filler bytes, the brand,
\* `after` filler bytes.
Zeros(n) == [j \in 1..n |-> 0]

FtypBox(before, brand, after) ==
  <<0, 0, 0, 24>> \o B_ftyp \o Zeros(before) \o brand \o Zeros(after)

\* The bodies one request may carry: none, empty, a JPEG, a PDF, ftyp boxes with
\* the brand at the start, at the end of and across the end of the scanned
\* window, a box that is too short, a box without a HEIF brand, and a body over
\* the size limit.
Wires ==
  { undefined,
    Wire(<<>>),
    Wire(JpegBytes),
    Wire(PdfBytes),
    Wire(FtypBox(0, B_heic, 4)),
    Wire(FtypBox(0, B_heic, 3)),
    Wire(FtypBox(ScanLimit - 12, B_heic, 8)),
    Wire(FtypBox(ScanLimit - 11, B_heic, 8)),
    Wire(FtypBox(0, <<97, 118, 105, 102>>, 4)),
    [bytes |-> JpegBytes, padMb |-> 31] }

Authorizations ==
  { undefined, Str(Bearer(Secret)), Str(Bearer(<<"s", "3">>)), Str(Secret) }

ContentTypes ==
  { undefined, Str(S_imageJpeg), Str(S_imageHeic), Str(ApplicationPdf), Str(S_ApplicationPDF) }

Filenames == { undefined, Str(S_scanPdf), Str(S_photoHeic) }

\* What an option header may carry: nothing, text that is no number, the
\* empty string, -1, 0, 1, 2.5, 150.5 and 25000.
OptionValues ==
  << undefined, [k |-> "text"], [k |-> "empty"], Num(-10), Num(0), Num(10), Num(25),
     Num(1505), Num(250000) >>

\* What x-fit may carry: nothing, a mode, a mode in capitals, a word that is no
\* mode, and the empty string.
FitHeaders ==
  << undefined, Str(S_cover), Str(<<"F","I","L","L">>), Str(<<"c","r","o","p">>), Str(<<>>) >>

\* What x-without-enlargement may carry: nothing, "false", " Off ", "1", and a
\* word that is neither yes nor no.
EnlargementHeaders ==
  << undefined, Str(<<"f","a","l","s","e">>), Str(<<" ","O","f","f"," ">>), Str(<<"1">>),
     Str(<<"m","a","y","b","e">>) >>

\* The k-th set of option headers: each header carries a different value, and
\* over all k every header carries every value.
OptionValue(k) == OptionValues[((k - 1) % Len(OptionValues)) + 1]

Options(k) ==
  [xPdfMaxPages |-> OptionValue(k), xJpegQuality |-> OptionValue(k + 1),
   xMaxDimension |-> OptionValue(k + 2), xWidth |-> OptionValue(k + 3),
   xHeight |-> OptionValue(k + 4), xPdfDpi |-> OptionValue(k + 5),
   xFit |-> FitHeaders[((k - 1) % Len(FitHeaders)) + 1],
   xWithoutEnlargement |-> EnlargementHeaders[(k % Len(EnlargementHeaders)) + 1]]

NoOptionHeaders ==
  [xPdfMaxPages |-> undefined, xJpegQuality |-> undefined, xMaxDimension |-> undefined,
   xWidth |-> undefined, xHeight |-> undefined, xPdfDpi |-> undefined,
   xFit |-> undefined, xWithoutEnlargement |-> undefined]

RequestIds == { undefined, Str(<<" ", "r", "1">>) }

\* Everything one client may send.
Requests ==
  { Request(p, a, c, f, w, Options(m), i) :
      p \in {"/convert", "/convert/pdf"}, a \in Authorizations, c \in ContentTypes,
      f \in Filenames, w \in Wires, m \in DOMAIN OptionValues, i \in RequestIds }

\* The /convert requests sent while several are in flight: a raster image, a
\* HEIC image, a PDF, a request without credentials and one without content.
ConvertRequests ==
  << Request("/convert", Str(Bearer(Secret)), Str(S_imageJpeg), undefined, Wire(JpegBytes),
             NoOptionHeaders, undefined),
     Request("/convert", Str(Bearer(Secret)), Str(S_imageHeic), undefined,
             Wire(FtypBox(0, B_heic, 4)), NoOptionHeaders, undefined),
     Request("/convert", Str(Bearer(Secret)), Str(ApplicationPdf), undefined, Wire(PdfBytes),
             NoOptionHeaders, undefined),
     Request("/convert", undefined, Str(S_imageJpeg), undefined, Wire(JpegBytes),
             NoOptionHeaders, undefined),
     Request("/convert", Str(Bearer(Secret)), Str(S_imageJpeg), undefined, Wire(<<>>),
             NoOptionHeaders, undefined) >>

InitWith(sent, present) ==
  /\ req = sent
  /\ pc = [r \in Reqs |-> IF r \in present THEN "new" ELSE "absent"]
  /\ res = [r \in Reqs |-> NoResponse]
  /\ aborted = [r \in Reqs |-> FALSE]
  /\ disk = {}
  /\ uuid = [r \in Reqs |-> 0]
  /\ nextUuid = 0
  /\ inflight = 0
  /\ calls = [r \in Reqs |-> <<>>]
  /\ thrown = [r \in Reqs |-> ""]
  /\ files = [r \in Reqs |-> <<>>]
  /\ idx = [r \in Reqs |-> 0]
  /\ archive = [r \in Reqs |-> [state |-> "none", queued |-> 0, entries |-> <<>>]]
  /\ proc = [r \in Reqs |-> "none"]
  /\ opts = [r \in Reqs |-> NoOptions]
  /\ pipeline = [r \in Reqs |-> NoPipeline]

\* One client, any request, any configuration of the secret.
Init ==
  /\ token \in {undefined, Str(<<>>), Str(Secret)}
  /\ capacity = 1
  /\ \E q \in Requests : InitWith([r \in Reqs |-> q], {1})

\* Every client sends a /convert request; the secret is configured.  The
\* clients are interchangeable, so they are numbered in the order of the list.
InitConvert ==
  /\ token = Str(Secret)
  /\ capacity \in 1..MaxCapacity
  /\ \E pick \in [Reqs -> 1..Len(ConvertRequests)] :
       /\ \A a, b \in Reqs : a < b => pick[a] <= pick[b]
       /\ InitWith([r \in Reqs |-> ConvertRequests[pick[r]]], Reqs)

Next ==
  \/ \E r \in Reqs : ClientAbort(r)
  \/ \E r \in Reqs : BodyTooLarge(r)
  \/ \E r \in Reqs : ConvertStart(r)
  \/ \E r \in Reqs : ConvertProbe(r)
  \/ \E r \in Reqs : ConvertSharp(r)
  \/ \E r \in Reqs : ConvertHeifDisplay(r)
  \/ \E r \in Reqs : ConvertHeifJpeg(r)
  \/ \E r \in Reqs : ConvertWriteFile(r)
  \/ \E r \in Reqs : RasterizerExit(r)
  \/ \E r \in Reqs : ConvertExec(r)
  \/ \E r \in Reqs : ConvertReadFile(r)
  \/ \E r \in Reqs : ConvertUnlinkPdf(r)
  \/ \E r \in Reqs : ConvertUnlinkJpg(r)
  \/ \E r \in Reqs : ConvertPdfSharp(r)
  \/ \E r \in Reqs : ConvertPdfStart(r)
  \/ \E r \in Reqs : PdfMkdir(r)
  \/ \E r \in Reqs : PdfWriteFile(r)
  \/ \E r \in Reqs : PdfExec(r)
  \/ \E r \in Reqs : PdfReaddir(r)
  \/ \E r \in Reqs : PdfReadFile(r)
  \/ \E r \in Reqs : PdfSharp(r)
  \/ \E r \in Reqs : ArchiveDrain(r)
  \/ \E r \in Reqs : ArchiveError(r)
  \/ \E r \in Reqs : PdfFinalize(r)
  \/ \E r \in Reqs : PdfUnlink(r)
  \/ \E r \in Reqs : PdfRmrf(r)

Spec == Init /\ [][Next]_vars

\* A step of the server for request r: middleware or handler code that runs
\* when the promise it awaits has settled.
HandlerStep(r) ==
  \/ BodyTooLarge(r)
  \/ ConvertStart(r)
  \/ ConvertProbe(r)
  \/ ConvertSharp(r)
  \/ ConvertHeifDisplay(r)
  \/ ConvertHeifJpeg(r)
  \/ ConvertWriteFile(r)
  \/ ConvertExec(r)
  \/ ConvertReadFile(r)
  \/ ConvertUnlinkPdf(r)
  \/ ConvertUnlinkJpg(r)
  \/ ConvertPdfSharp(r)
  \/ ConvertPdfStart(r)
  \/ PdfMkdir(r)
  \/ PdfWriteFile(r)
  \/ PdfExec(r)
  \/ PdfReaddir(r)
  \/ PdfReadFile(r)
  \/ PdfSharp(r)
  \/ PdfFinalize(r)
  \/ PdfUnlink(r)
  \/ PdfRmrf(r)

\* The event loop runs every callback that is ready, and the libraries and the
\* file system settle their promises.  Nothing is assumed of the client or of
\* the pdftoppm subprocess: execFile is called without a timeout, so only the
\* subprocess itself ends its run.
Fairness == \A r \in Reqs : WF_vars(HandlerStep(r))

\* One client sends one of the /convert requests above, a PDF to /convert/pdf,
\* or a body over the size limit.
LiveRequests ==
  { ConvertRequests[k] : k \in DOMAIN ConvertRequests }
    \cup { Request("/convert/pdf", Str(Bearer(Secret)), Str(ApplicationPdf), undefined,
                    Wire(PdfBytes), NoOptionHeaders, undefined),
            Request("/convert", Str(Bearer(Secret)), Str(S_imageJpeg), undefined,
                    [bytes |-> JpegBytes, padMb |-> 31], NoOptionHeaders, undefined) }

InitLive ==
  /\ token = Str(Secret)
  /\ capacity = 1
  /\ \E q \in LiveRequests : InitWith([r \in Reqs |-> q], {1})

SpecLive == InitLive /\ [][Next]_vars /\ Fairness

\* The steps of /convert requests.
NextConvert ==
  \/ \E r \in Reqs : ClientAbort(r)
  \/ \E r \in Reqs : ConvertStart(r)
  \/ \E r \in Reqs : ConvertProbe(r)
  \/ \E r \in Reqs : ConvertSharp(r)
  \/ \E r \in Reqs : ConvertHeifDisplay(r)
  \/ \E r \in Reqs : ConvertHeifJpeg(r)
  \/ \E r \in Reqs : ConvertWriteFile(r)
  \/ \E r \in Reqs : RasterizerExit(r)
  \/ \E r \in Reqs : ConvertExec(r)
  \/ \E r \in Reqs : ConvertReadFile(r)
  \/ \E r \in Reqs : ConvertUnlinkPdf(r)
  \/ \E r \in Reqs : ConvertUnlinkJpg(r)
  \/ \E r \in Reqs : ConvertPdfSharp(r)

SpecConvert == InitConvert /\ [][NextConvert]_vars

\* The requests sent while several are in flight on both endpoints: a PDF to
\* /convert and a PDF to /convert/pdf that carry the same x-request-id, and a
\* raster image to /convert.
MixedRequests ==
  << Request("/convert", Str(Bearer(Secret)), Str(ApplicationPdf), undefined, Wire(PdfBytes),
             NoOptionHeaders, Str(<<"r", "1">>)),
     Request("/convert/pdf", Str(Bearer(Secret)), Str(ApplicationPdf), undefined,
             Wire(PdfBytes), NoOptionHeaders, Str(<<"r", "1">>)),
     Request("/convert", Str(Bearer(Secret)), Str(S_imageJpeg), undefined, Wire(JpegBytes),
             NoOptionHeaders, undefined) >>

InitMixed ==
  /\ token = Str(Secret)
  /\ capacity \in 1..MaxCapacity
  /\ \E pick \in [Reqs -> 1..Len(MixedRequests)] :
       /\ \A a, b \in Reqs : a < b => pick[a] <= pick[b]
       /\ InitWith([r \in Reqs |-> MixedRequests[pick[r]]], Reqs)

\* The steps these requests can take.
NextMixed ==
  \/ \E r \in Reqs : ClientAbort(r)
  \/ \E r \in Reqs : RasterizerExit(r)
  \/ \E r \in Reqs : ConvertStart(r)
  \/ \E r \in Reqs : ConvertProbe(r)
  \/ \E r \in Reqs : ConvertSharp(r)
  \/ \E r \in Reqs : ConvertWriteFile(r)
  \/ \E r \in Reqs : ConvertExec(r)
  \/ \E r \in Reqs : ConvertReadFile(r)
  \/ \E r \in Reqs : ConvertUnlinkPdf(r)
  \/ \E r \in Reqs : ConvertUnlinkJpg(r)
  \/ \E r \in Reqs : ConvertPdfSharp(r)
  \/ \E r \in Reqs : ConvertPdfStart(r)
  \/ \E r \in Reqs : PdfMkdir(r)
  \/ \E r \in Reqs : PdfWriteFile(r)
  \/ \E r \in Reqs : PdfExec(r)
  \/ \E r \in Reqs : PdfReaddir(r)
  \/ \E r \in Reqs : PdfReadFile(r)
  \/ \E r \in Reqs : PdfSharp(r)
  \/ \E r \in Reqs : ArchiveDrain(r)
  \/ \E r \in Reqs : ArchiveError(r)
  \/ \E r \in Reqs : PdfFinalize(r)
  \/ \E r \in Reqs : PdfUnlink(r)
  \/ \E r \in Reqs : PdfRmrf(r)

SpecMixed == InitMixed /\ [][NextMixed]_vars

\* One client sends a PDF to /convert/pdf, and the output directory holds any
\* names when it is listed.
InitPages ==
  /\ token = Str(Secret)
  /\ capacity = 1
  /\ InitWith([r \in Reqs |->
                 Request("/convert/pdf", Str(Bearer(Secret)), Str(ApplicationPdf), undefined,
                         Wire(PdfBytes), NoOptionHeaders, undefined)], {1})

NextPages ==
  \/ \E r \in Reqs : ClientAbort(r)
  \/ \E r \in Reqs : ConvertPdfStart(r)
  \/ \E r \in Reqs : PdfMkdir(r)
  \/ \E r \in Reqs : PdfWriteFile(r)
  \/ \E r \in Reqs : RasterizerLeaves(r)
  \/ \E r \in Reqs : PdfExec(r)
  \/ \E r \in Reqs : PdfReaddir(r)
  \/ \E r \in Reqs : PdfReadFile(r)
  \/ \E r \in Reqs : PdfSharp(r)
  \/ \E r \in Reqs : ArchiveDrain(r)
  \/ \E r \in Reqs : ArchiveError(r)
  \/ \E r \in Reqs : PdfFinalize(r)
  \/ \E r \in Reqs : PdfUnlink(r)
  \/ \E r \in Reqs : PdfRmrf(r)

SpecPages == InitPages /\ [][NextPages]_vars

\* The inputs of the resize: a raster image, a HEIC image and a PDF sent to
\* /convert, a PDF sent to /convert/pdf and a body over the size limit, each
\* with every combination of x-width, x-height and x-max-dimension sent or not,
\* and of the values of x-fit and x-without-enlargement.
ResizeInputs ==
  { [path |-> "/convert", contentType |-> Str(S_imageJpeg), wire |-> Wire(JpegBytes)],
    [path |-> "/convert", contentType |-> Str(S_imageHeic), wire |-> Wire(FtypBox(0, B_heic, 4))],
    [path |-> "/convert", contentType |-> Str(ApplicationPdf), wire |-> Wire(PdfBytes)],
    [path |-> "/convert/pdf", contentType |-> Str(ApplicationPdf), wire |-> Wire(PdfBytes)],
    [path |-> "/convert", contentType |-> Str(S_imageJpeg),
     wire |-> [bytes |-> JpegBytes, padMb |-> 31]] }

ResizeRequests ==
  { Request(k.path, Str(Bearer(Secret)), k.contentType, undefined, k.wire,
            [NoOptionHeaders EXCEPT !.xWidth = w, !.xHeight = h, !.xMaxDimension = m,
                                    !.xFit = FitHeaders[f],
                                    !.xWithoutEnlargement = EnlargementHeaders[e]],
            undefined) :
      k \in ResizeInputs, w \in {undefined, Num(1505)}, h \in {undefined, Num(6000)},
      m \in {undefined, Num(250000)}, f \in DOMAIN FitHeaders,
      e \in DOMAIN EnlargementHeaders }

InitResize ==
  /\ token = Str(Secret)
  /\ capacity = 1
  /\ \E q \in ResizeRequests : InitWith([r \in Reqs |-> q], {1})

SpecResize == InitResize /\ [][Next]_vars

(* ============================ properties ============================== *)

Started(r) == pc[r] \notin {"absent", "new"}

Returned(r) == pc[r] = "done"

Holders == {r \in Reqs : HoldsSlot(r)}

\* No body, or a body of no bytes.
EmptyWire(w) == w = undefined \/ (Len(w.bytes) = 0 /\ w.padMb = 0)

\* The Authorization header is exactly "Bearer <configured secret>".
ExactCredential(r) ==
  /\ token # undefined
  /\ req[r].authorization # undefined
  /\ req[r].authorization.s = <<"B","e","a","r","e","r"," ">> \o token.s

TempFiles(r) == {f \in disk : f.id = uuid[r]}

Called(r, c) == \E j \in DOMAIN calls[r] : calls[r][j] = c

(* C1: in every reachable state, whatever the interleaving of /convert
   requests (failed and cancelled ones included), the number of held job slots
   is at most the configured capacity, and so is the number of conversions in
   flight. *)
C1_SlotsWithinCapacity ==
  /\ inflight \in 0..capacity
  /\ Cardinality(Holders) <= capacity

\* Every slot is held and another request has been turned away.
C1_Witness ==
  \E a, b \in Reqs :
     /\ a # b
     /\ HoldsSlot(a)
     /\ inflight = capacity
     /\ Returned(b)
     /\ res[b].status = 429

(* C2: with capacity 1, a request that reaches admission while another
   conversion is in flight is answered in that same step with 429 busy and a
   Retry-After header, having started no work (it is never queued); a request
   that reaches admission when no conversion is in flight is admitted and is
   never answered busy. *)
C2_BusyOrAdmitted ==
  /\ [][\A r \in Reqs :
          ( /\ capacity = 1
            /\ pc[r] = "new" /\ pc'[r] # "new"
            /\ ExactCredential(r) /\ ~aborted[r] /\ ~EmptyWire(req[r].wire) )
          => IF \E o \in Reqs \ {r} : HoldsSlot(o)
               THEN /\ pc'[r] = "done"
                    /\ res'[r].status = 429
                    /\ res'[r].code = "busy"
                    /\ res'[r].retryAfter
                    /\ calls'[r] = <<>>
               ELSE /\ pc'[r] \in Guarded
                    /\ res'[r].status # 429]_vars
  /\ [](\A r \in Reqs : res[r].status = 429 => Returned(r) /\ calls[r] = <<>>)

\* Capacity 1: one conversion is in flight and the other request was turned away.
C2_Witness ==
  \E a, b \in Reqs :
     /\ capacity = 1
     /\ HoldsSlot(a)
     /\ res[b].status = 429
     /\ res[b].retryAfter

(* C3: every acquired slot is released exactly once, however the guarded
   conversion ends: the slot counter always equals the number of requests
   inside the guarded part of the handler, and it is 0 once every request has
   returned. *)
C3_ReleasedExactlyOnce ==
  /\ inflight = Cardinality(Holders)
  /\ (\A r \in Reqs : Returned(r)) => inflight = 0

\* Two admitted requests have returned, one through the catch block and one
\* cancelled by its client.
C3_Witness ==
  \E a, b \in Reqs :
     /\ a # b
     /\ Returned(a) /\ calls[a] # <<>> /\ res[a].status = 500
     /\ Returned(b) /\ calls[b] # <<>> /\ aborted[b] /\ ~res[b].headersSent
     /\ inflight = 0

(* C4: when a /convert or /convert/pdf handler has returned, no temporary file
   or directory of that request exists, whichever way the handler was left. *)
C4_TempRemoved ==
  \A r \in Reqs : Returned(r) => TempFiles(r) = {}

\* A /convert/pdf request whose pages were rendered and whose client then
\* disconnected has returned.
C4_Witness ==
  \E r \in Reqs :
     /\ Returned(r)
     /\ req[r].path = "/convert/pdf"
     /\ Len(files[r]) > 1
     /\ aborted[r]

\* Reading, normalizing or appending a page, or finalizing the archive.
PageWork(log) ==
  SelectSeq(log, LAMBDA c : c \in {"readFile", "sharp", "append", "finalize"})

\* A step of the archive loop in which the handler evaluates isAborted and
\* finds the client gone.
DetectsAbort(r) ==
  /\ req[r].path = "/convert/pdf"
  /\ pc[r] \in {"p_readdir", "p_sharp"}
  /\ aborted[r]
  /\ pc'[r] # pc[r]

InFinally(r) == req[r].path = "/convert/pdf" /\ pc[r] \in {"p_unlink", "p_rmrf", "done"}

(* C5: when the client of /convert/pdf has gone away, the step in which the
   handler detects it starts no page read, no normalization, no append and no
   finalize and enters the cleanup; nothing of that kind is started afterwards,
   the archive is never finalized, and once the handler has returned no
   temporary file of the request exists. *)
C5_AbortStopsPageWork ==
  /\ [][\A r \in Reqs :
          /\ DetectsAbort(r) =>
               /\ PageWork(calls'[r]) = PageWork(calls[r])
               /\ pc'[r] = "p_unlink"
          /\ (InFinally(r) /\ aborted[r]) =>
               /\ calls'[r] = calls[r]
               /\ InFinally(r)'
               /\ archive'[r].state \notin {"finalizing", "final"}]_vars
  /\ [](\A r \in Reqs : (Returned(r) /\ aborted[r]) => TempFiles(r) = {})

\* The client went away after archive bytes had been sent and before every
\* page was processed; the handler has returned.
C5_Witness ==
  \E r \in Reqs :
     /\ Returned(r)
     /\ aborted[r]
     /\ archive[r].state = "aborted"
     /\ res[r].zip > 0
     /\ idx[r] < Len(files[r])
     /\ disk = {}

(* C6: on /convert/pdf, when the rasterizer has finished and the page list
   holds more files than the bound parsed from x-pdf-max-pages, the response is
   413 pdf_too_many_pages, no archive is created and no archive byte is written
   to the response. *)
C6_TooManyPages ==
  \A r \in Reqs :
     (req[r].path = "/convert/pdf" /\ Len(files[r]) > maxPagesOf(r)) =>
        /\ res[r].status = 413
        /\ res[r].code = "pdf_too_many_pages"
        /\ res[r].zip = 0
        /\ ~Called(r, "archiver")
        /\ archive[r].state = "none"

\* Three pages were rendered against a bound of two.
C6_Witness ==
  \E r \in Reqs :
     /\ Returned(r)
     /\ Len(files[r]) = 3
     /\ maxPagesOf(r) = 2
     /\ res[r].status = 413

(* C7: at no time does the temporary directory of a /convert/pdf request hold
   more than one rendered page file. *)
C7_OnePageAtATime ==
  \A r \in Reqs : Cardinality({f \in TempFiles(r) : f.kind = "page"}) <= 1

(* C8: a POST whose Authorization header is absent or is not exactly
   "Bearer <configured secret>" is answered 401, whatever its body and other
   headers. *)
C8_AlwaysUnauthorized ==
  \A r \in Reqs : (Returned(r) /\ ~ExactCredential(r)) => res[r].status = 401

(* C9: a request with an empty or missing body starts no conversion work, no
   subprocess and no temporary file; when it carries the credential and its
   client is still connected, it is answered 400 empty_body, on /convert and
   on /convert/pdf. *)
C9_EmptyBody ==
  \A r \in Reqs :
     (Started(r) /\ EmptyWire(req[r].wire)) =>
        /\ calls[r] = <<>>
        /\ TempFiles(r) = {}
        /\ inflight = 0
        /\ (ExactCredential(r) /\ token.s # <<>> /\ ~aborted[r]) =>
              /\ res[r].status = 400
              /\ res[r].code = "empty_body"

\* A zero-length body sent to /convert/pdf with the credential and a PDF
\* content type has been answered.
C9_Witness ==
  \E r \in Reqs :
     /\ Returned(r)
     /\ req[r].path = "/convert/pdf"
     /\ req[r].wire = Wire(<<>>)
     /\ isPdfRequest(r)
     /\ res[r].status = 400
     /\ res[r].code = "empty_body"

\* At least HeicMinLen bytes, "ftyp" at bytes [4:8], and "heic" somewhere in
\* bytes [8:min(length, ScanLimit)].
HeicSignature(b) ==
  /\ Len(b) >= 16
  /\ <<b[5], b[6], b[7], b[8]>> = <<102, 116, 121, 112>>
  /\ \E j \in 9..(Min(Len(b), 256) - 3) :
        <<b[j], b[j + 1], b[j + 2], b[j + 3]>> = <<104, 101, 105, 99>>

HasHeicBody(r) == req[r].wire # undefined /\ HeicSignature(req[r].wire.bytes)

\* The HEIC path of /convert: no decode probe and no rasterizer; the raster
\* decoder first and, when it fails, the HEIF adapter.
RoutedHeic(r) ==
  /\ calls[r] \in {<<"sharp">>, <<"sharp", "heif">>}
  /\ (Returned(r) /\ calls[r] = <<"sharp">>) => res[r].status \notin {415, 500}

(* C10, as claimed: a buffer with the HEIC signature is routed to the HEIC
   path of /convert for every declared content-type and filename. *)
C10_AlwaysRoutedHeic ==
  \A r \in Reqs :
     (req[r].path = "/convert" /\ HasHeicBody(r) /\ calls[r] # <<>>) => RoutedHeic(r)

(* C10, amended: a buffer with the HEIC signature is classified HEIC by the
   signature scan for every declared content-type and filename; on /convert it
   is routed to the HEIC path when the request is not a PDF request, and to
   the PDF path (first page through the rasterizer) when the content-type
   starts with application/pdf or the filename ends in .pdf. *)
C10_RoutedHeicUnlessPdf ==
  \A r \in Reqs :
     HasHeicBody(r) =>
        /\ looksLikeHeic(bodyOf(r))
        /\ (req[r].path = "/convert" /\ calls[r] # <<>>) =>
              IF isPdfRequest(r)
                THEN Head(calls[r]) = "writeFile" /\ ~Called(r, "heif")
                ELSE RoutedHeic(r)

\* A ftyp box whose brand ends with the scanned window, declared image/jpeg,
\* went through the raster decoder and then the HEIF adapter.
C10_Witness ==
  \E r \in Reqs :
     /\ Returned(r)
     /\ req[r].path = "/convert"
     /\ req[r].wire = Wire(FtypBox(ScanLimit - 12, B_heic, 8))
     /\ req[r].contentType = Str(S_imageJpeg)
     /\ calls[r] = <<"sharp", "heif">>
     /\ res[r].status = 200

\* The messages that are written out in the handlers.
FixedMessages ==
  { "Unauthorized", "Empty body", "Busy", "Payload too large (max 30mb)",
    "This endpoint only accepts PDFs", "PDF render produced no pages",
    "Conversion failed", "Server missing PDF rendering dependency",
    "ZIP creation failed" }

\* The response is an answer that reports a failure.
FailureResponse(rs) == rs.ended /\ rs.status >= 400

(* C11: every failure response is the JSON envelope, its message is one of a
   fixed set of texts with nothing put into it, and in particular it is never
   the text of an exception. *)
C11_FixedMessages ==
  \A r \in Reqs :
     FailureResponse(res[r]) =>
        /\ res[r].ctype = "json"
        /\ res[r].message.text \in FixedMessages
        /\ res[r].message.args = <<>>

(* C12: every response carries the request identifier (the inbound
   x-request-id, trimmed, when one was given) in its x-request-id header, and
   every JSON error envelope carries the same identifier in requestId. *)
C12_RequestIdEverywhere ==
  \A r \in Reqs :
     res[r].ended =>
        /\ res[r].ridHeader # undefined
        /\ HasInboundId(r) => res[r].ridHeader = Str(trim(HeaderStr(req[r].xRequestId)))
        /\ res[r].ctype = "json" => res[r].envRid = res[r].ridHeader

(* C13: every run of the rasterizer ends: a request whose pdftoppm subprocess
   is running is not left waiting on it forever. *)
C13_RasterizerEnds ==
  \A r \in Reqs : (proc[r] = "running") ~> (proc[r] # "running")

(* C14: when the rasterizer binary is missing, the request is answered with
   an error whose message differs from that of the generic conversion failure,
   on /convert (first page) and on /convert/pdf. *)
C14_MissingDependencyDistinct ==
  \A r \in Reqs :
     (Returned(r) /\ proc[r] = "missing") =>
        /\ FailureResponse(res[r])
        /\ res[r].message # Text("Conversion failed")

\* The numeric option headers a handler parses.
ResizeHeaders == {"x-jpeg-quality", "x-max-dimension", "x-width", "x-height"}

ParsedHeaders(r) ==
  IF opts[r] = NoOptions THEN {}
  ELSE IF req[r].path = "/convert" THEN ResizeHeaders
  ELSE ResizeHeaders \cup {"x-pdf-dpi", "x-pdf-max-pages"}

\* The header as sent, and the option the handler works with.
SentOption(r, h) ==
  CASE h = "x-jpeg-quality"  -> req[r].xJpegQuality
    [] h = "x-max-dimension" -> req[r].xMaxDimension
    [] h = "x-width"         -> req[r].xWidth
    [] h = "x-height"        -> req[r].xHeight
    [] h = "x-pdf-dpi"       -> req[r].xPdfDpi
    [] h = "x-pdf-max-pages" -> req[r].xPdfMaxPages

ParsedOption(r, h) ==
  CASE h = "x-jpeg-quality"  -> opts[r].resize.quality
    [] h = "x-max-dimension" -> opts[r].resize.maxDim
    [] h = "x-width"         -> opts[r].resize.width
    [] h = "x-height"        -> opts[r].resize.height
    [] h = "x-pdf-dpi"       -> opts[r].dpi
    [] h = "x-pdf-max-pages" -> opts[r].maxPages

\* The documented range and default of each option (none: no resize).
Documented(h) ==
  CASE h = "x-jpeg-quality"  -> [min |-> 0, max |-> 100, default |-> Numeral(100)]
    [] h = "x-pdf-dpi"       -> [min |-> 72, max |-> 600, default |-> Numeral(300)]
    [] h = "x-pdf-max-pages" -> [min |-> 1, max |-> 200, default |-> Numeral(50)]
    [] OTHER                 -> [min |-> 1, max |-> 20000, default |-> null]

\* The header is text that is no number, or the empty string.
NonNumeric(v) == v # undefined /\ v.k \in {"text", "empty"}

\* The header is a number below the minimum or above the maximum.
OutOfRange(v, d) ==
  /\ v # undefined
  /\ v.k = "num"
  /\ (v.tenths < 10 * d.min \/ v.tenths > 10 * d.max)

(* C15, as claimed: an option header that is non-numeric (the empty string
   included) or out of range (negative, zero, above the maximum) yields the
   option's default. *)
C15_OutOfRangeGivesDefault ==
  \A r \in Reqs : \A h \in ParsedHeaders(r) :
     (NonNumeric(SentOption(r, h)) \/ OutOfRange(SentOption(r, h), Documented(h)))
        => ParsedOption(r, h) = Documented(h).default

(* C15, amended: no value of an option header is an error.  An absent header
   and text that is no number yield the default; the empty string counts as
   the number 0; a number is rounded down and then clamped, so a value below
   the minimum yields the minimum and a value above the maximum yields the
   maximum, not the default. *)
C15_ClampedNotDefault ==
  \A r \in Reqs : \A h \in ParsedHeaders(r) :
     LET v == SentOption(r, h)
         d == Documented(h)
         t == IF v.k = "empty" THEN 0 ELSE v.tenths
     IN  IF v = undefined \/ v.k = "text" THEN ParsedOption(r, h) = d.default
         ELSE IF t < 10 * d.min THEN ParsedOption(r, h) = Numeral(d.min)
         ELSE IF t >= 10 * (d.max + 1) THEN ParsedOption(r, h) = Numeral(d.max)
         ELSE ParsedOption(r, h) = Numeral(t \div 10)

\* /convert/pdf has parsed an empty x-jpeg-quality as 0, an x-max-dimension of
\* -1 as 1 and an x-pdf-dpi of 2.5 as 72.
C15_Witness ==
  \E r \in Reqs :
     /\ req[r].path = "/convert/pdf"
     /\ req[r].xJpegQuality = [k |-> "empty"]
     /\ opts[r] # NoOptions
     /\ opts[r].resize.quality = Numeral(0)
     /\ req[r].xMaxDimension = Num(-10)
     /\ opts[r].resize.maxDim = Numeral(1)
     /\ req[r].xPdfDpi = Num(25)
     /\ opts[r].dpi = Numeral(72)

\* The step is one of request r: its handler moves on or its subprocess exits.
Moves(r) == pc'[r] # pc[r] \/ proc'[r] # proc[r]

\* The requests that have drawn the key of their temp names.
Keyed == {r \in Reqs : uuid[r] # 0}

(* C16: no two requests in flight share a temp path, even when they carry the
   same x-request-id: the keys of their temp names differ, every temp file on
   disk carries the key of exactly one request, and a step creates or removes
   only files that carry the key of the request taking the step. *)
C16_DisjointTempPaths ==
  /\ [](\A a, b \in Keyed : a # b => uuid[a] # uuid[b])
  /\ [](\A f \in disk : Cardinality({r \in Keyed : uuid[r] = f.id}) = 1)
  /\ [][\A f \in (disk' \ disk) \cup (disk \ disk') :
          \E r \in Reqs :
             /\ Moves(r)
             /\ f.id = uuid'[r]
             /\ \A o \in Reqs \ {r} : f.id # uuid'[o]]_vars

\* A /convert and a /convert/pdf request that sent the same x-request-id have
\* temp files on disk at the same time.
C16_Witness ==
  \E a, b \in Reqs :
     /\ req[a].path = "/convert"
     /\ req[b].path = "/convert/pdf"
     /\ HasInboundId(a)
     /\ res[a].ridHeader = res[b].ridHeader
     /\ PdfPath(uuid[a]) \in disk
     /\ PdfPath(uuid[b]) \in disk
     /\ \E f \in TempFiles(b) : f.kind = "page"

\* A /convert/pdf request between the entry of its handler and its return.
ArchiveInFlight(r) == req[r].path = "/convert/pdf" /\ pc[r] \notin {"absent", "new", "done"}

(* C18: the admission cap does not apply to /convert/pdf.  An archive request
   is never answered busy, its steps never change the slot counter, and its
   handler can start whatever the number of held slots; a /convert request that
   reaches admission while fewer /convert handlers than the capacity hold a
   slot is admitted, whatever the number of archive requests in flight. *)
C18_ArchiveUncapped ==
  /\ [](\A r \in Reqs :
          req[r].path = "/convert/pdf" =>
             /\ res[r].status # 429
             /\ ~res[r].retryAfter
             /\ pc[r] = "new" => ENABLED ConvertPdfStart(r))
  /\ [][\A r \in Reqs :
          /\ (req[r].path = "/convert/pdf" /\ Moves(r)) => inflight' = inflight
          /\ ( /\ req[r].path = "/convert/pdf"
               /\ pc[r] = "new" /\ pc'[r] # "new"
               /\ ~aborted[r] )
             => pc'[r] = "p_mkdir"
          /\ ( /\ req[r].path = "/convert"
               /\ pc[r] = "new" /\ pc'[r] # "new"
               /\ ~aborted[r]
               /\ Cardinality(Holders) < capacity )
             => /\ pc'[r] \in Guarded
                /\ res'[r].status # 429]_vars

\* Capacity 1: a /convert request holds the only slot while the rasterizer of
\* an archive request is running.
C18_Witness ==
  \E a, b \in Reqs :
     /\ capacity = 1
     /\ ArchiveInFlight(a)
     /\ proc[a] = "running"
     /\ calls[a] # <<>>
     /\ HoldsSlot(b)
     /\ inflight = capacity

\* The order of two characters of an entry name in a listing.
CharCode(c) ==
  IF IsDigit(c) THEN 48 + DigitVal(c)
  ELSE IF c = "." THEN 46
  ELSE IF c = "g" THEN 103
  ELSE IF c = "j" THEN 106
  ELSE 112

\* a sorts before b in a lexical listing.
RECURSIVE LexLess(_, _)
LexLess(a, b) ==
  IF b = <<>> THEN FALSE
  ELSE IF a = <<>> THEN TRUE
  ELSE IF Head(a) # Head(b) THEN CharCode(Head(a)) < CharCode(Head(b))
  ELSE LexLess(Tail(a), Tail(b))

\* The name is three digits that read k, followed by ".jpg".
ThreeDigitName(name, k) ==
  /\ Len(name) = 7
  /\ \A j \in 1..3 : IsDigit(name[j])
  /\ 100 * DigitVal(name[1]) + 10 * DigitVal(name[2]) + DigitVal(name[3]) = k
  /\ SubSeq(name, 4, 7) = <<".", "j", "p", "g">>

\* Page counts at which the number of digits changes, up to the largest
\* maxPages.
PageCounts == {1, 2, 9, 10, 11, 99, 100, 101, 199, 200}

(* C17: the archive of a /convert/pdf request that was finalized has one entry
   per rendered page, appended in page order; entry k is named by the three
   digits of k followed by .jpg (001.jpg, 002.jpg, ...); and for every page
   count up to 200 the names given to two pages sort lexically as the pages
   do. *)
C17_EntryNames ==
  \A r \in Reqs :
     archive[r].state = "final" =>
        LET e == archive[r].entries IN
          /\ Len(e) = Len(files[r])
          /\ Len(e) >= 1
          /\ \A k \in 1..Len(e) :
               /\ ThreeDigitName(e[k].name, k)
               /\ e[k].page = files[r][k]
               /\ e[k].page = PageName(k)
          /\ \A a, b \in DOMAIN e : a < b => LexLess(e[a].name, e[b].name)
          /\ \A a, b \in PageCounts :
               /\ ThreeDigitName(entryName(a - 1), a)
               /\ a < b => LexLess(entryName(a - 1), entryName(b - 1))

\* An archive of three pages was finalized and sent.
C17_Witness ==
  \E r \in Reqs :
     /\ Returned(r)
     /\ archive[r].state = "final"
     /\ Len(archive[r].entries) = 3
     /\ res[r].ended
     /\ res[r].status = 200
     /\ ~aborted[r]

\* The files in the request's output directory that the rasterizer wrote as
\* pages.
RenderedPages(r) ==
  {f \in TempFiles(r) : f.kind = "page" /\ \E k \in 1..9 : f.name = PageName(k)}

\* The handler's step after fs.readdir has settled.
AfterReaddir(r) == req[r].path = "/convert/pdf" /\ pc[r] = "p_readdir" /\ pc'[r] # pc[r]

(* C19: in /convert/pdf the page-count check comes before all re-encoding.
   When the rasterizer has written more pages than maxPages, the step that
   follows the directory listing starts nothing and goes to the cleanup, and
   the request never reads or normalizes a page and never creates an archive. *)
C19_CheckBeforeReencoding ==
  /\ [][\A r \in Reqs :
          (AfterReaddir(r) /\ Cardinality(RenderedPages(r)) > opts[r].maxPages.n) =>
             /\ calls'[r] = calls[r]
             /\ archive'[r] = archive[r]
             /\ pc'[r] = "p_unlink"]_vars
  /\ [](\A r \in Reqs :
          (req[r].path = "/convert/pdf" /\ opts[r] # NoOptions
             /\ Len(files[r]) > opts[r].maxPages.n) =>
             /\ ~Called(r, "readFile")
             /\ ~Called(r, "sharp")
             /\ ~Called(r, "append")
             /\ archive[r].state = "none"
             /\ archive[r].entries = <<>>)

\* Two pages were rendered against a bound of one; the request was answered
\* after the directory listing, its temp files are gone.
C19_Witness ==
  \E r \in Reqs :
     /\ Returned(r)
     /\ Len(files[r]) = 2
     /\ opts[r] # NoOptions
     /\ opts[r].maxPages = Numeral(1)
     /\ calls[r] = <<"mkdir", "writeFile", "pdftoppm", "readdir">>
     /\ res[r].code = "pdf_too_many_pages"
     /\ disk = {}

(* C20: when the rasterizer has exited successfully and the output directory
   holds no file with a page name, /convert/pdf answers 500 pdf_render_failed,
   creates no archive and sends no archive byte; it never answers 200 with an
   empty archive. *)
C20_NoPagesIsFailure ==
  /\ [][\A r \in Reqs :
          (AfterReaddir(r) /\ RenderedPages(r) = {}) =>
             /\ res'[r].ended
             /\ res'[r].status = 500
             /\ res'[r].code = "pdf_render_failed"
             /\ res'[r].zip = 0
             /\ archive'[r].state = "none"
             /\ pc'[r] = "p_unlink"]_vars
  /\ [](\A r \in Reqs :
          archive[r].state # "none" => Len(files[r]) >= 1)

\* The rasterizer exited with status 0 and left only a file that is no page;
\* the request has been answered pdf_render_failed.
C20_Witness ==
  \E r \in Reqs :
     /\ pc[r] = "p_unlink"
     /\ proc[r] = "ok"
     /\ PagePath(uuid[r], StrayName) \in disk
     /\ files[r] = <<>>
     /\ res[r].status = 500
     /\ res[r].code = "pdf_render_failed"

\* The names of the listing that are page-<digits>.jpg (capitals allowed), each
\* with the value of its digits.
NumberedPages ==
  { << <<"p","a","g","e","-","1",".","j","p","g">>, 1 >>,
    << <<"p","a","g","e","-","2",".","j","p","g">>, 2 >>,
    << <<"p","a","g","e","-","0","2",".","j","p","g">>, 2 >>,
    << <<"P","A","G","E","-","3",".","J","P","G">>, 3 >>,
    << <<"p","a","g","e","-","1","0",".","j","p","g">>, 10 >> }

PageNumberOf(f) == (CHOOSE p \in NumberedPages : p[1] = f)[2]

\* The list holds each page name of the directory once and nothing else, and
\* the page numbers never go down along it.
ListsPagesByNumber(list, names) ==
  /\ {list[k] : k \in DOMAIN list} = {f \in names : \E p \in NumberedPages : p[1] = f}
  /\ Len(list) = Cardinality({list[k] : k \in DOMAIN list})
  /\ \A a, b \in DOMAIN list : a < b => PageNumberOf(list[a]) <= PageNumberOf(list[b])

\* The handler of /convert/pdf between the directory listing and the removal
\* of the output directory.
HasPageList(r) ==
  /\ req[r].path = "/convert/pdf"
  /\ Called(r, "readdir")
  /\ pc[r] \in {"p_readFile", "p_sharp", "p_finalize", "p_unlink", "p_rmrf"}

(* C21: whatever names the output directory of a /convert/pdf request holds,
   the page list the handler works with holds exactly the names of the form
   page-<digits>.jpg, each once, in the order of the numeric value of their
   digits (page-2 before page-10), not in the order of the names. *)
C21_PagesByNumber ==
  /\ [][\A r \in Reqs :
          AfterReaddir(r) => ListsPagesByNumber(files'[r], DirNames(disk, uuid[r]))]_vars
  /\ [](\A r \in Reqs :
          HasPageList(r) => ListsPagesByNumber(files[r], DirNames(disk, uuid[r])))

\* The directory held page-10.jpg, page-2.jpg and a name that is no page; the
\* list is page-2.jpg, page-10.jpg, although page-10.jpg sorts first by name.
C21_Witness ==
  \E r \in Reqs :
     /\ HasPageList(r)
     /\ PagePath(uuid[r], StrayName) \in disk
     /\ files[r] = << <<"p","a","g","e","-","2",".","j","p","g">>,
                      <<"p","a","g","e","-","1","0",".","j","p","g">> >>
     /\ LexLess(files[r][2], files[r][1])

\* The step in which toJpegWithSharp(input, opts) of a non-PDF /convert request
\* settles.
RasterSettles(r) == req[r].path = "/convert" /\ pc[r] = "c_sharp" /\ pc'[r] # pc[r]

\* The step answers with the failure of a conversion.
AnswersFailure(r) ==
  /\ pc'[r] = "done"
  /\ res'[r].ended
  /\ res'[r].status = 500
  /\ res'[r].code = "conversion_failed"

(* C22: on /convert, for a buffer that is not handled as a PDF: when the raster
   decoder fails and the buffer has the HEIC signature, the HEIF adapter is
   tried, and a failure answer of that step is the adapter's own failure; when
   the buffer does not have the signature, the step in which the raster
   decoder fails answers with that failure and the adapter is not tried.  The
   adapter is tried only in the step in which the raster decoder, started
   before it, has settled. *)
C22_FallbackChain ==
  /\ [][\A r \in Reqs :
          /\ RasterSettles(r) =>
               IF HasHeicBody(r)
                 THEN \/ /\ calls'[r] = Append(calls[r], "heif")
                         /\ pc'[r] = "c_heif" \/ AnswersFailure(r)
                      \/ /\ calls'[r] = calls[r]
                         /\ pc'[r] = "done"
                         /\ res'[r].status # 500
                 ELSE /\ calls'[r] = calls[r]
                      /\ pc'[r] = "done"
                      /\ res'[r].status = 500 => AnswersFailure(r)
          /\ (Called(r, "heif")' /\ ~Called(r, "heif")) =>
               /\ RasterSettles(r)
               /\ HasHeicBody(r)
               /\ calls[r] = <<"sharp">>]_vars
  /\ [](\A r \in Reqs :
          Called(r, "heif") =>
             /\ calls[r] = <<"sharp", "heif">>
             /\ ~isPdfRequest(r))

\* A buffer with the HEIC signature, declared image/heic: the raster decoder
\* failed, the HEIF adapter was tried and failed in its turn, and the request
\* was answered conversion_failed.
C22_Witness ==
  \E r \in Reqs :
     /\ Returned(r)
     /\ req[r].path = "/convert"
     /\ req[r].contentType = Str(S_imageHeic)
     /\ HasHeicBody(r)
     /\ calls[r] = <<"sharp", "heif">>
     /\ res[r].status = 500
     /\ res[r].code = "conversion_failed"

(* C23: on /convert, 415 unsupported_media_type is the answer only to a
   request that is not a PDF request, whose buffer does not have the HEIC
   signature and whose decode probe failed (nothing was started after it).  A
   buffer with the HEIC signature and a PDF request never run the probe, and
   once their conversion has started every failure answer they get is 500
   conversion_failed. *)
C23_OnlyProbeGives415 ==
  \A r \in Reqs :
     req[r].path = "/convert" =>
        /\ res[r].status = 415 =>
              /\ res[r].code = "unsupported_media_type"
              /\ ~isPdfRequest(r)
              /\ ~HasHeicBody(r)
              /\ calls[r] = <<"metadata">>
              /\ Returned(r)
        /\ res[r].code = "unsupported_media_type" => res[r].status = 415
        /\ (isPdfRequest(r) \/ HasHeicBody(r)) =>
              /\ ~Called(r, "metadata")
              /\ (calls[r] # <<>> /\ FailureResponse(res[r])) =>
                    /\ res[r].status = 500
                    /\ res[r].code = "conversion_failed"

\* A box with a brand that is no HEIF brand, declared image/heic, failed the
\* probe and was answered 415.
C23_Witness ==
  \E r \in Reqs :
     /\ Returned(r)
     /\ req[r].path = "/convert"
     /\ req[r].contentType = Str(S_imageHeic)
     /\ req[r].filename = Str(S_photoHeic)
     /\ req[r].wire = Wire(FtypBox(0, <<97, 118, 105, 102>>, 4))
     /\ calls[r] = <<"metadata">>
     /\ res[r].status = 415
     /\ res[r].code = "unsupported_media_type"

\* The resize steps of the pipeline the request has built.
ResizeSteps(r) == SelectSeq(pipeline[r], LAMBDA step : step.op = "resize")

(* C24: every sharp pipeline a request builds (for a raster image, for the
   pixels of a decoded HEIC image, for a page rendered from a PDF) has the same
   resize: with a width or a height, one resize to that box with the parsed
   fit and withoutEnlargement, whatever maxDimension is; otherwise, with a
   maxDimension, one resize to maxDimension x maxDimension with fit "inside"
   whatever x-fit says and with the parsed withoutEnlargement; otherwise no
   resize.  The JPEG encoder comes last. *)
C24_ResizeChoice ==
  \A r \in Reqs :
     pipeline[r] # NoPipeline =>
        LET o == opts[r].resize IN
          /\ pipeline[r][1].op = "sharp"
          /\ pipeline[r][Len(pipeline[r])] = [op |-> "jpeg", quality |-> o.quality]
          /\ IF o.width # null \/ o.height # null
                THEN ResizeSteps(r) =
                       << [op |-> "resize",
                           width  |-> IF o.width = null THEN undefined ELSE o.width,
                           height |-> IF o.height = null THEN undefined ELSE o.height,
                           fit |-> o.fit,
                           withoutEnlargement |-> o.withoutEnlargement] >>
              ELSE IF o.maxDim # null
                THEN ResizeSteps(r) =
                       << [op |-> "resize", width |-> o.maxDim, height |-> o.maxDim,
                           fit |-> <<"i","n","s","i","d","e">>,
                           withoutEnlargement |-> o.withoutEnlargement] >>
              ELSE ResizeSteps(r) = <<>>

\* The pixels of a decoded HEIC image, sent with x-max-dimension: 25000,
\* x-fit: cover and x-without-enlargement: " Off " and neither x-width nor
\* x-height, go through a resize to 20000 x 20000 with fit "inside" that may
\* enlarge.
C24_Witness ==
  \E r \in Reqs :
     /\ pc[r] = "c_heifJpeg"
     /\ req[r].xWidth = undefined
     /\ req[r].xHeight = undefined
     /\ req[r].xMaxDimension = Num(250000)
     /\ req[r].xFit = Str(<<"c","o","v","e","r">>)
     /\ req[r].xWithoutEnlargement = Str(<<" ","O","f","f"," ">>)
     /\ pipeline[r][1] = [op |-> "sharp", input |-> "raw"]
     /\ ResizeSteps(r) =
          << [op |-> "resize", width |-> Numeral(20000), height |-> Numeral(20000),
              fit |-> <<"i","n","s","i","d","e">>, withoutEnlargement |-> FALSE] >>

\* An absent dimension, or a whole number of pixels in 1..20000.
DimensionInRange(v) == v = null \/ (v.k = "int" /\ v.n \in 1..20000)

\* The request is one whose handler gets as far as parsing the options.
ReachesParsing(r) ==
  /\ authOk(r)
  /\ ~isAborted(r)
  /\ ~emptyBody(bodyOf(r))
  /\ req[r].path = "/convert/pdf" => isPdfRequest(r)

(* C25: whatever the option headers carry, the options a handler has parsed
   are in their ranges: quality in 0..100, dpi in 72..600, maxPages (parsed by
   /convert/pdf) in 1..200, width, height and maxDim absent or in 1..20000, fit
   one of inside, cover, contain, fill, outside, withoutEnlargement a boolean.
   Parsing raises no error: the handler that reaches it has its options and
   goes on to its first await without an answer. *)
C25_OptionsInRange ==
  /\ [](\A r \in Reqs :
          opts[r] # NoOptions =>
             LET o == opts[r].resize IN
               /\ o.quality.k = "int" /\ o.quality.n \in 0..100
               /\ opts[r].dpi.k = "int" /\ opts[r].dpi.n \in 72..600
               /\ IF req[r].path = "/convert/pdf"
                    THEN opts[r].maxPages.k = "int" /\ opts[r].maxPages.n \in 1..200
                    ELSE opts[r].maxPages = null
               /\ DimensionInRange(o.width)
               /\ DimensionInRange(o.height)
               /\ DimensionInRange(o.maxDim)
               /\ o.fit \in { <<"i","n","s","i","d","e">>, <<"c","o","v","e","r">>,
                              <<"c","o","n","t","a","i","n">>, <<"f","i","l","l">>,
                              <<"o","u","t","s","i","d","e">> }
               /\ o.withoutEnlargement \in BOOLEAN)
  /\ [][\A r \in Reqs :
          (pc[r] = "new" /\ pc'[r] # "new" /\ ~TooLarge(req[r].wire) /\ ReachesParsing(r)
             /\ inflight < capacity) =>
             /\ opts'[r] # NoOptions
             /\ ~res'[r].ended
             /\ calls'[r] # <<>>]_vars

\* /convert/pdf has parsed x-pdf-max-pages: -1, x-jpeg-quality: 0,
\* x-width: 2.5, x-pdf-dpi: 25000, x-fit: crop and x-without-enlargement: maybe
\* as maxPages 1, quality 0, width 2, dpi 600, fit inside and
\* withoutEnlargement true.
C25_Witness ==
  \E r \in Reqs :
     /\ req[r].path = "/convert/pdf"
     /\ req[r].xPdfMaxPages = Num(-10)
     /\ req[r].xJpegQuality = Num(0)
     /\ req[r].xWidth = Num(25)
     /\ req[r].xPdfDpi = Num(250000)
     /\ req[r].xFit = Str(<<"c","r","o","p">>)
     /\ req[r].xWithoutEnlargement = Str(<<"m","a","y","b","e">>)
     /\ opts[r] # NoOptions
     /\ opts[r].maxPages = Numeral(1)
     /\ opts[r].dpi = Numeral(600)
     /\ opts[r].resize.quality = Numeral(0)
     /\ opts[r].resize.width = Numeral(2)
     /\ opts[r].resize.fit = <<"i","n","s","i","d","e">>
     /\ opts[r].resize.withoutEnlargement = TRUE

\* What was sent as the head and the body of an error answer.
Outcome(rs) == <<rs.status, rs.ctype, rs.code, rs.message, rs.envRid>>

(* C26: a request gets at most one response outcome.  Once the head of a
   response has been sent its status, content type and error envelope never
   change, and once the response has ended nothing of it changes; a response
   that carries archive bytes is a 200 zip response without an error envelope,
   whatever fails afterwards (a page that cannot be encoded, an error of the
   archive, the catch block), and such a failure only ends it; sendError,
   called on a response whose head was sent, only ends it. *)
C26_OneOutcome ==
  /\ [][\A r \in Reqs :
          /\ res[r].headersSent =>
               /\ Outcome(res'[r]) = Outcome(res[r])
               /\ res'[r].headersSent
          /\ res[r].ended => res'[r] = res[r]
          /\ (res[r].zip > 0 /\ res'[r] # res[r]) =>
               \/ res'[r] = [res[r] EXCEPT !.ended = TRUE]
               \/ res'[r] = [res[r] EXCEPT !.zip = @ + 1]
               \/ res'[r] = [res[r] EXCEPT !.zip = @ + 1, !.ended = TRUE]]_vars
  /\ [](\A r \in Reqs :
          /\ res[r].zip > 0 =>
               /\ res[r].headersSent
               /\ res[r].status = 200
               /\ res[r].ctype = "zip"
               /\ res[r].code = ""
          /\ res[r].ctype = "json" => res[r].zip = 0
          /\ res[r].ended => res[r].headersSent
          /\ res[r].headersSent =>
               sendError(res[r], 500, "conversion_failed", Text("Conversion failed"),
                         res[r].ridHeader) = [res[r] EXCEPT !.ended = TRUE])

\* The first page of two was sent as archive bytes, the second could not be
\* encoded; the handler has returned and the response is an ended 200 zip
\* response.
C26_Witness ==
  \E r \in Reqs :
     /\ Returned(r)
     /\ ~aborted[r]
     /\ Len(files[r]) = 2
     /\ idx[r] = 1
     /\ archive[r].state = "open"
     /\ res[r].zip = 1
     /\ res[r].ended
     /\ res[r].status = 200
     /\ res[r].ctype = "zip"

\* The request carries the configured, non-empty secret.
HasCredential(r) == ExactCredential(r) /\ token.s # <<>>

\* The answer is one of the three rejections that come before any work.
Rejected(r) ==
  \/ res[r].status \in {400, 401}
  \/ req[r].path = "/convert/pdf" /\ res[r].status = 415

(* C27: a request answered 401, 400 or, on /convert/pdf, 415 has done no
   pipeline work: it has started no file operation, subprocess or decoder, it
   has parsed no options and built no pipeline, it holds no slot, and no
   temporary file or directory of it exists then or later.  The checks come in
   this order: a request without the credential is answered 401 whatever its
   body and content type; with the credential and without content, 400; with
   both and, on /convert/pdf, content that is no PDF, 415. *)
C27_RejectedDoesNothing ==
  \A r \in Reqs :
     /\ Rejected(r) =>
          /\ calls[r] = <<>>
          /\ TempFiles(r) = {}
          /\ proc[r] = "none"
          /\ opts[r] = NoOptions
          /\ pipeline[r] = NoPipeline
          /\ archive[r].state = "none"
          /\ ~HoldsSlot(r)
     /\ (res[r].ended /\ ~TooLarge(req[r].wire)) =>
          /\ ~HasCredential(r) => res[r].status = 401
          /\ (HasCredential(r) /\ EmptyWire(req[r].wire)) => res[r].status = 400
          /\ ( /\ HasCredential(r) /\ ~EmptyWire(req[r].wire)
               /\ req[r].path = "/convert/pdf" /\ ~isPdfRequest(r) )
             => res[r].status = 415 /\ res[r].code = "unsupported_media_type"
          /\ res[r].status = 400 => res[r].code = "empty_body"
          /\ res[r].status = 401 => res[r].code = "unauthorized"

\* A request to /convert/pdf without credential, without content and without
\* a PDF content type has been answered 401; its handler has returned and
\* nothing is on disk.
C27_Witness ==
  \E r \in Reqs :
     /\ Returned(r)
     /\ req[r].path = "/convert/pdf"
     /\ token = Str(Secret)
     /\ req[r].authorization = undefined
     /\ req[r].wire = Wire(<<>>)
     /\ req[r].contentType = Str(S_imageJpeg)
     /\ req[r].filename = undefined
     /\ res[r].status = 401
     /\ calls[r] = <<>>
     /\ disk = {}

=============================================================================
